---- MODULE Spec2Model ----
(***************************************************************************)
(* A model of the windicss Processor (src/src/lib/index.ts): configuration *)
(* and theme resolution, the variant table, the plugin registry, and the   *)
(* three compilation entry points interpret, compile and attributify.      *)
(*                                                                         *)
(* JavaScript values are tagged records: [t |-> "str"], [t |-> "obj"],     *)
(* [t |-> "fn"], [t |-> "dict"], [t |-> "undef"].  An object whose key     *)
(* order the code depends on (the theme, iterated with Object.entries) is  *)
(* an ordered dictionary: a sequence of entries [k, v].  A configuration   *)
(* is a function from its present keys to their values, so that a key that *)
(* is present with the value undefined differs from an absent key.         *)
(***************************************************************************)
EXTENDS Integers, Sequences, FiniteSets, TLC

VARIABLES
    _config,    \* Processor._config: the resolved configuration
    _theme,     \* Processor._theme: the theme the accessor theme() reads
    _variants,  \* Processor._variants: variant name -> wrapper generator
    _cache,     \* Processor._cache: html, classes, variants, utilities
    _plugin,    \* Processor._plugin: the plugin registry
    call,       \* the last call of the public API: arguments and outcome
    history,    \* what earlier calls were: the call before, the registrations
    args,       \* cli: the parsed command line
    files,      \* cli: the input files, each the document it holds
    styleSheets,\* cli: file -> the style sheet recorded for it
    preflights, \* cli: file -> the preflight sheet recorded for it
    written,    \* cli: output file -> what writeFileSync has put there
    watchers    \* cli: the file names watchBuild has started a watcher for

cli == <<args, files, styleSheets, preflights, written, watchers>>

vars == <<_config, _theme, _variants, _cache, _plugin, call, history, cli>>

----------------------------------------------------------------------------
(* Values *)

Undefined == [t |-> "undef"]

Str(s) == [t |-> "str", s |-> s]

Obj(o) == [t |-> "obj", o |-> o]

Fn(c) == [t |-> "fn", c |-> c]

Dict(d) == [t |-> "dict", d |-> d]

EmptyObj == [k \in {} |-> Undefined]

\* {...a, ...b} on objects whose key order is immaterial
Spread(a, b) ==
    [k \in (DOMAIN a) \cup (DOMAIN b) |-> IF k \in DOMAIN b THEN b[k] ELSE a[k]]

Without(a, k) == [x \in (DOMAIN a) \ {k} |-> a[x]]

Only(k, v) == [x \in {k} |-> v]

\* `k in o` and o[k] on an ordered dictionary
OHas(o, k) == \E i \in 1..Len(o) : o[i].k = k

OGet(o, k) ==
    IF OHas(o, k) THEN o[CHOOSE i \in 1..Len(o) : o[i].k = k].v ELSE Undefined

\* o[k] = v: an existing key keeps its place, a new key goes last
OSet(o, k, v) ==
    IF OHas(o, k)
    THEN [i \in 1..Len(o) |-> IF o[i].k = k THEN [k |-> k, v |-> v] ELSE o[i]]
    ELSE Append(o, [k |-> k, v |-> v])

ODel(o, k) == SelectSeq(o, LAMBDA e : e.k # k)

OKeys(o) == {o[i].k : i \in 1..Len(o)}

\* a ?? b
Nullish(a, b) == IF a.t = "undef" THEN b ELSE a

AsObj(v) == IF v.t = "obj" THEN v.o ELSE EmptyObj

\* utils/algorithm/combineConfig: deep merge of b into a; where both hold an
\* object under a key the two are merged, otherwise b's value replaces a's
RECURSIVE combineConfig(_, _)
combineConfig(a, b) ==
    [k \in (DOMAIN a) \cup (DOMAIN b) |->
        IF k \notin DOMAIN b THEN a[k]
        ELSE IF k \notin DOMAIN a THEN b[k]
        ELSE IF b[k].t = "obj" /\ a[k].t = "obj"
             THEN Obj(combineConfig(a[k].o, b[k].o))
             ELSE b[k]]

\* Processor.theme(path, defaultValue) with the default left out, on a
\* given value of this._theme; paths of the model are top-level keys
themeOf(th, path) == OGet(th, path)

\* A theme function called with the theme accessor: a closure is a constant
\* function, a function that returns theme(path), or the function that
\* _reduceFunction builds from a theme value a and an extension b
RECURSIVE CallFn(_, _)
CallFn(f, th) ==
    CASE f.c.c = "const" -> f.c.ret
      [] f.c.c = "ref" -> themeOf(th, f.c.path)
      [] f.c.c = "comb" ->
            LET A == IF f.c.a.t = "fn" THEN CallFn(f.c.a, th) ELSE f.c.a
                B == IF f.c.b.t = "fn" THEN CallFn(f.c.b, th)
                     ELSE Nullish(f.c.b, Obj(EmptyObj))
            IN  Obj(combineConfig(AsObj(A), AsObj(B)))

\* Processor._reduceFunction: fold the entries of extendTheme, from the
\* i-th on, into theme
RECURSIVE reduceFrom(_, _, _)
reduceFrom(theme, extendTheme, i) ==
    IF i > Len(extendTheme) THEN theme
    ELSE LET key == extendTheme[i].k
             value == extendTheme[i].v
             themeValue == OGet(theme, key)
             next == IF themeValue.t \in {"fn", "obj"}
                     THEN OSet(theme, key, Fn([c |-> "comb", a |-> themeValue, b |-> value]))
                     ELSE OSet(theme, key, value)
         IN  reduceFrom(next, extendTheme, i + 1)

\* an extension that is dropped
reduceNothing(theme, extendTheme) == theme

_reduceFunction(theme, extendTheme) == reduceFrom(theme, extendTheme, 1)

\* the loop of _resolveFunction over one dictionary: each function entry is
\* replaced, in place and in key order, by what it returns.  The accessor
\* reads this._theme: the dictionary itself when it is this._theme
RECURSIVE resolveFrom(_, _, _, _)
resolveFrom(dict, i, thisTheme, aliased) ==
    IF i > Len(dict) THEN dict
    ELSE LET th == IF aliased THEN dict ELSE thisTheme
             v == dict[i].v
             next == IF v.t = "fn"
                     THEN [dict EXCEPT ![i] = [k |-> dict[i].k, v |-> CallFn(v, th)]]
                     ELSE dict
         IN  resolveFrom(next, i + 1, thisTheme, aliased)

\* Processor._resolveFunction on config, this._theme being thisTheme (or
\* config.theme itself when aliased): first the theme, then theme.extend
_resolveFunction(config, thisTheme, aliased) ==
    IF "theme" \notin DOMAIN config THEN config
    ELSE LET t1 == resolveFrom(config.theme, 1, thisTheme, aliased)
             ext == OGet(t1, "extend")
             t2 == IF ext.t = "dict"
                   THEN OSet(t1, "extend",
                             Dict(resolveFrom(ext.d, 1, IF aliased THEN t1 ELSE thisTheme, FALSE)))
                   ELSE t1
         IN  [config EXCEPT !.theme = t2]

----------------------------------------------------------------------------
(* Configuration resolution *)

\* the loop `theme[key] = typeof value === 'function' ? value : { ...value }`
\* over the user theme's own keys; the values of the model are objects and
\* functions, of which the shallow copy keeps the content
RECURSIVE assignFrom(_, _, _)
assignFrom(theme, userTheme, i) ==
    IF i > Len(userTheme) THEN theme
    ELSE assignFrom(OSet(theme, userTheme[i].k, userTheme[i].v), userTheme, i + 1)

RECURSIVE _resolveConfig(_, _), _resolvePresets(_), presetsFrom(_, _, _, _)

\* Processor._resolveConfig(userConfig, presets)
_resolveConfig(userConfig, presets) ==
    LET hasPresets == "presets" \in DOMAIN userConfig
        presets1 == IF hasPresets
                    THEN _resolveConfig(_resolvePresets(userConfig.presets), presets)
                    ELSE presets
        uc1 == IF hasPresets THEN Without(userConfig, "presets") ELSE userConfig
        hasTheme == "theme" \in DOMAIN uc1
        userTheme == IF hasTheme THEN uc1.theme ELSE <<>>
        uc2 == IF hasTheme THEN Without(uc1, "theme") ELSE uc1
        ext == OGet(userTheme, "extend")
        extendTheme == IF ext.t = "dict" THEN ext.d ELSE <<>>
        theme0 == IF "theme" \in DOMAIN presets1 THEN presets1.theme ELSE <<>>
        theme1 == assignFrom(theme0, ODel(userTheme, "extend"), 1)
        theme2 == _reduceFunction(theme1, extendTheme)
    IN  Spread(Spread(presets1, uc2), Only("theme", theme2))

\* the forEach of _resolvePresets: the accumulated config and extension
presetsFrom(presets, i, config, extend) ==
    IF i > Len(presets) THEN [config |-> config, extend |-> extend]
    ELSE LET p == presets[i]
             pe == IF "theme" \in DOMAIN p THEN OGet(p.theme, "extend") ELSE Undefined
             has == pe.t = "dict"
             extend1 == IF has THEN _reduceFunction(extend, pe.d) ELSE extend
             p1 == IF has THEN [p EXCEPT !.theme = ODel(p.theme, "extend")] ELSE p
         IN  presetsFrom(presets, i + 1, _resolveConfig(p1, config), extend1)

\* Processor._resolvePresets(presets)
_resolvePresets(presets) ==
    LET r == presetsFrom(presets, 1, EmptyObj, <<>>)
        theme == IF "theme" \in DOMAIN r.config THEN r.config.theme ELSE <<>>
    IN  Spread(r.config, Only("theme", OSet(theme, "extend", Dict(r.extend))))

\* lib/variants resolveVariants(config): the built-in state and theme
\* variants, and one screen variant per key of theme.screens
StateVariants == {"hover"}

ThemeVariants == {"dark"}

resolveVariantsOf(config) ==
    LET screens == IF "theme" \in DOMAIN config
                   THEN AsObj(OGet(config.theme, "screens")) ELSE EmptyObj
        screen == [n \in DOMAIN screens |->
                      [kind |-> "screen", name |-> n, gen |-> "builtin", at |-> screens[n]]]
        theme == [n \in ThemeVariants |->
                      [kind |-> "theme", name |-> n, gen |-> "builtin", at |-> Undefined]]
        state == [n \in StateVariants |->
                      [kind |-> "state", name |-> n, gen |-> "builtin", at |-> Undefined]]
    IN  [screen |-> screen, theme |-> theme, state |-> state]

\* Processor.resolveVariants() without a type
resolveVariants(p) ==
    LET v == resolveVariantsOf(p.config)
    IN  Spread(Spread(v.screen, v.theme), v.state)

----------------------------------------------------------------------------
(* Styles, the plugin registry and the plugin API.  A Processor in the     *)
(* middle of a call is the record p of its fields; p.threw says that an    *)
(* exception is propagating, which ends the call where it was raised.      *)

\* utils/style: a Style and a Keyframes; decl stands for the declarations
Style(selector, decl, layer) ==
    [kind |-> "Style", selector |-> selector, decl |-> <<decl>>, important |-> FALSE,
     parent |-> "", wrap |-> <<>>, atRules |-> <<>>,
     meta |-> [type |-> layer, variants |-> <<>>, order |-> 0]]

Keyframes(name) ==
    [kind |-> "Keyframes", selector |-> Str(name), decl |-> <<name>>, important |-> FALSE,
     parent |-> "", wrap |-> <<>>, atRules |-> <<>>,
     meta |-> [type |-> "utilities", variants |-> <<>>, order |-> 0]]

\* the class selector '.' + name
Dot(name) == [pre |-> ".", name |-> name, escaped |-> FALSE]

\* the class selector '.' + cssEscape(name)
DotEscaped(name) == [pre |-> ".", name |-> name, escaped |-> TRUE]

\* Processor._replaceStyleVariants(styles): each `@screen <name>` at-rule
\* becomes the first at-rule of the variant <name>; calling an absent
\* variant raises a TypeError
BadScreens(p, styles) ==
    {i \in 1..Len(styles) :
        \E j \in 1..Len(styles[i].atRules) :
            /\ styles[i].atRules[j].screen
            /\ styles[i].atRules[j].name \notin DOMAIN p.variants}

replaceAtRule(p, a) ==
    IF a.screen /\ p.variants[a.name].kind = "screen"
    THEN [screen |-> FALSE, name |-> a.name, media |-> p.variants[a.name].at]
    ELSE a

_replaceStyleVariants(p, styles) ==
    [i \in 1..Len(styles) |->
        [styles[i] EXCEPT !.atRules = [j \in 1..Len(@) |-> replaceAtRule(p, @[j])]]]

\* Processor._addPluginCache(type, key, styles)
_addPluginCache(p, type, key, styles) ==
    [p EXCEPT !.plugin[type] =
        Spread(@, Only(key, IF key \in DOMAIN @ THEN @[key] \o styles ELSE styles))]

\* a configuration key that is present with a truthy value
Truthy(config, key) ==
    key \in DOMAIN config /\ config[key].t \notin {"undef", "false"}

\* Processor.addUtilities for one rule, with the default options: rule.sel
\* and rule.isClass are what guessClassName makes of the rule's key
addUtilities(p, rule) ==
    LET st == [Style(IF rule.isClass THEN Dot(rule.sel) ELSE Str(rule.sel), rule.decl, "utilities")
                 EXCEPT !.important = Truthy(p.config, "important")]
    IN  _addPluginCache(p, IF rule.isClass THEN "utilities" ELSE "static", rule.sel, <<st>>)

\* Processor.addComponents for one rule, with the default options (which
\* leave respectImportant unset)
addComponents(p, rule) ==
    LET st == Style(IF rule.isClass THEN Dot(rule.sel) ELSE Str(rule.sel), rule.decl, "components")
    IN  _addPluginCache(p, IF rule.isClass THEN "components" ELSE "static", rule.sel, <<st>>)

\* Processor.addDynamic(key, generator): the first registration stores the
\* generator; a later one stores a closure that looks this._plugin.dynamic[key]
\* up when it is called and falls back to the new generator
addDynamic(p, key, generator) ==
    [p EXCEPT !.plugin.dynamic =
        Spread(@, Only(key, IF key \in DOMAIN @
                            THEN [c |-> "chain", key |-> key, gen |-> generator]
                            ELSE [c |-> "first", key |-> key, gen |-> generator]))]

\* Processor.addBase for one rule, whose styles carry rule.atRules
addBase(p, rule) ==
    LET styles == <<[Style(Str(rule.key), rule.decl, "base") EXCEPT !.atRules = rule.atRules]>>
    IN  IF BadScreens(p, styles) # {}
        THEN [p EXCEPT !.threw = TRUE]
        ELSE _addPluginCache(p, "preflights", rule.key, _replaceStyleVariants(p, styles))

\* Processor.addVariant(name, generator)
addVariant(p, name, generator) ==
    [p EXCEPT !.variants = Spread(@, Only(name, [kind |-> "plugin", name |-> name,
                                                 gen |-> generator, at |-> Undefined])),
              !.cache.variants = @ \cup {name}]

\* one call of a plugin handler on pluginUtils
pluginCall(p, c) ==
    CASE c.op = "addVariant" -> addVariant(p, c.name, c.gen)
      [] c.op = "addUtilities" -> addUtilities(p, c.rule)
      [] c.op = "addComponents" -> addComponents(p, c.rule)
      [] c.op = "addDynamic" -> addDynamic(p, c.key, c.gen)
      [] c.op = "addBase" -> addBase(p, c.rule)

RECURSIVE handlerFrom(_, _, _)
handlerFrom(p, handler, i) ==
    IF i > Len(handler) \/ p.threw THEN p
    ELSE handlerFrom(pluginCall(p, handler[i]), handler, i + 1)

----------------------------------------------------------------------------
(* Extraction, variant wrapping and importance *)

\* the depth of nested calls at which the engine raises
\* "RangeError: Maximum call stack size exceeded", scaled down
MaxStack == 3

RangeError == [t |-> "RangeError"]

\* what a plugin's utility generator returns for a class name: a generator
\* is known by the class names it accepts, for which it returns one Style,
\* or one Keyframes when it is a generator of keyframes
generate(generator, className) ==
    IF className \in generator.accepts
    THEN [t |-> "style",
          s |-> IF "keyframes" \in DOMAIN generator THEN Keyframes(className)
                ELSE Style(Dot(className), generator.id, "raw")]
    ELSE Undefined

\* a call of the function stored in this._plugin.dynamic, at a depth of the
\* call stack: the first registration calls its generator and sets the meta
\* of what it returns; a later registration calls
\* deepCopy(this._plugin.dynamic[key])(Utility) || generator(...), and
\* this._plugin.dynamic[key] is read when the call is made
RECURSIVE callDynamic(_, _, _, _)
callDynamic(p, f, className, depth) ==
    IF depth > MaxStack THEN RangeError
    ELSE IF f.c = "first"
    THEN LET out == generate(f.gen, className)
         IN  IF out.t = "style"
             THEN [t |-> "style", s |-> [out.s EXCEPT !.meta.type = "utilities"]]
             ELSE out
    ELSE LET old == callDynamic(p, p.plugin.dynamic[f.key], className, depth + 1)
         IN  IF old.t # "undef" THEN old ELSE generate(f.gen, className)

\* lib/utilities: the built-in tables, and the key under which a class name
\* is looked up among the dynamic generators
staticUtilities == {"block"}

dynamicUtilities == {"bg-red", "animate-spin"}

KeyOf(className) ==
    CASE className = "bg-red" -> "bg"
      [] className = "animate-spin" -> "animate"
      [] OTHER -> className

builtin(className) ==
    IF className = "animate-spin"
    THEN [t |-> "list", l |-> <<Keyframes("spin"), Style(Dot(className), className, "utilities")>>]
    ELSE [t |-> "style", s |-> Style(Dot(className), className, "utilities")]

\* lib/extract: the built-in static table, the plugins' static styles, the
\* plugins' dynamic generators, the built-in dynamic generators
extract(p, className) ==
    LET staticPlugins == Spread(Spread(p.plugin.utilities, p.plugin.components),
                                p.plugin.shortcuts)
        key == KeyOf(className)
        dyn == IF key \in DOMAIN p.plugin.dynamic
               THEN callDynamic(p, p.plugin.dynamic[key], className, 1)
               ELSE Undefined
    IN  IF className \in staticUtilities THEN builtin(className)
        ELSE IF className \in DOMAIN staticPlugins
        THEN [t |-> "list", l |-> staticPlugins[className]]
        ELSE IF dyn.t # "undef" THEN dyn
        ELSE IF className \in dynamicUtilities THEN builtin(className)
        ELSE Undefined

\* the at-rules wrapWithVariants collects: one for each step of the fold
\* whose accumulated style already is an at-rule (its first at-rule)
collected(ws) ==
    LET firstAt(i) == ws[CHOOSE j \in 1..(i - 1) :
                            /\ ws[j].kind = "screen"
                            /\ \A h \in 1..(j - 1) : ws[h].kind # "screen"].at
        steps == SelectSeq([i \in 1..Len(ws) |-> i],
                           LAMBDA i : \E j \in 1..(i - 1) : ws[j].kind = "screen")
    IN  [n \in 1..Len(steps) |-> firstAt(steps[n])]

\* Processor.wrapWithVariants(variants, styles), styles an array: calling
\* this._variants[i]() for a name that is not in the table raises a TypeError
wrapWithVariants(p, variants, styles) ==
    LET unknown == \E i \in 1..Len(variants) : variants[i] \notin DOMAIN p.variants
        wraps == [i \in 1..Len(variants) |-> p.variants[variants[i]]]
        wrapOne(style) ==
            IF style.kind = "Keyframes" THEN style
            ELSE [style EXCEPT !.wrap = wraps \o @,
                               !.meta.variants = IF collected(wraps) # <<>>
                                                 THEN collected(wraps) ELSE @]
    IN  IF Len(variants) = 0 THEN [threw |-> FALSE, styles |-> styles]
        ELSE IF unknown /\ \E i \in 1..Len(styles) : styles[i].kind # "Keyframes"
        THEN [threw |-> TRUE, styles |-> <<>>]
        ELSE [threw |-> FALSE, styles |-> [i \in 1..Len(styles) |-> wrapOne(styles[i])]]

\* Processor.markAsImportant(style, force)
markAsImportant(p, style, force) ==
    LET important == IF force THEN [t |-> "true"]
                     ELSE IF "important" \in DOMAIN p.config THEN p.config.important
                     ELSE [t |-> "false"]
    IN  IF important.t = "str" THEN [style EXCEPT !.parent = important.s]
        ELSE IF important.t = "true" THEN [style EXCEPT !.important = TRUE]
        ELSE style

\* the result of extract with its selector replaced and importance marked,
\* as an array; a Keyframes keeps its selector
restyle(p, result, selector, important) ==
    LET one(s) == IF s.kind = "Keyframes" THEN s
                  ELSE markAsImportant(p, [s EXCEPT !.selector = selector], important)
    IN  IF result.t = "style"
        THEN <<markAsImportant(p, [result.s EXCEPT !.selector = selector], important)>>
        ELSE [i \in 1..Len(result.l) |-> one(result.l[i])]

----------------------------------------------------------------------------
(* The class parser and the style sheet *)

RECURSIVE Join(_, _)
Join(parts, sep) ==
    IF Len(parts) = 0 THEN ""
    ELSE IF Len(parts) = 1 THEN parts[1]
    ELSE parts[1] \o sep \o Join(Tail(parts), sep)

\* A class string is the sequence of its whitespace-separated tokens.  A
\* word is `!`? seg:seg:...:seg, an alias is *name, a group is
\* `!`? seg:...:seg:( token ... token )
RECURSIVE Text(_), Texts(_, _)
Text(tok) ==
    CASE tok.type = "alias" -> "*" \o tok.name
      [] tok.type = "word" -> (IF tok.bang THEN "!" ELSE "") \o Join(tok.segs, ":")
      [] tok.type = "group" ->
            (IF tok.bang THEN "!" ELSE "") \o Join(tok.segs, ":") \o ":("
                \o Join(Texts(tok.children, 1), " ") \o ")"

Texts(toks, i) ==
    IF i > Len(toks) THEN <<>> ELSE <<Text(toks[i])>> \o Texts(toks, i + 1)

\* classNames.trim().split(/\s+/g).join(' ')
normalized(classNames) == Join(Texts(classNames, 1), " ")

\* the number of leading segments, the last excepted, that name known variants
RECURSIVE peel(_, _, _)
peel(segs, known, n) ==
    IF n + 1 < Len(segs) /\ segs[n + 1] \in known THEN peel(segs, known, n + 1) ELSE n

\* utils/parser/class ClassParser(classNames, separator, variants).parse():
\* a leading variant is peeled while it is a known variant; a group whose
\* prefix is not made of known variants degrades to a plain utility
RECURSIVE parseToken(_, _), parseFrom(_, _, _)
parseToken(tok, known) ==
    CASE tok.type = "alias" ->
            [type |-> "alias", raw |-> Text(tok), variants |-> <<>>,
             content |-> tok.name, important |-> FALSE]
      [] tok.type = "word" ->
            LET n == peel(tok.segs, known, 0)
            IN  [type |-> "utility", raw |-> Text(tok),
                 variants |-> SubSeq(tok.segs, 1, n),
                 content |-> Join(SubSeq(tok.segs, n + 1, Len(tok.segs)), ":"),
                 important |-> tok.bang]
      [] tok.type = "group" ->
            IF \A i \in 1..Len(tok.segs) : tok.segs[i] \in known
            THEN [type |-> "group", raw |-> Text(tok), variants |-> tok.segs,
                  content |-> parseFrom(tok.children, known, 1), important |-> tok.bang]
            ELSE [type |-> "utility", raw |-> Text(tok), variants |-> <<>>,
                  content |-> Text([tok EXCEPT !.bang = FALSE]), important |-> tok.bang]

parseFrom(toks, known, i) ==
    IF i > Len(toks) THEN <<>>
    ELSE <<parseToken(toks[i], known)>> \o parseFrom(toks, known, i + 1)

parse(classNames, known) == parseFrom(classNames, known, 1)

\* utils/style StyleSheet.sort(): stable, by the layer of the style
LayerRank(style) ==
    CASE style.meta.type = "base" -> 0
      [] style.meta.type = "components" -> 1
      [] OTHER -> 2

sort(sheet) ==
    SelectSeq(sheet, LAMBDA x : LayerRank(x) = 0)
        \o SelectSeq(sheet, LAMBDA x : LayerRank(x) = 1)
        \o SelectSeq(sheet, LAMBDA x : LayerRank(x) = 2)

\* two styles that combine() merges into one rule
SameRule(a, b) ==
    /\ a.kind = b.kind /\ a.selector = b.selector /\ a.important = b.important
    /\ a.parent = b.parent /\ a.wrap = b.wrap /\ a.atRules = b.atRules

\* the declarations of b that a does not hold yet, in b's order
newDecls(a, b) == SelectSeq(b.decl, LAMBDA d : \A i \in 1..Len(a.decl) : a.decl[i] # d)

\* utils/style StyleSheet.combine(): a style joins the first earlier style
\* of the same rule, its new declarations appended
RECURSIVE combineFrom(_, _, _)
combineFrom(sheet, out, i) ==
    IF i > Len(sheet) THEN out
    ELSE LET st == sheet[i]
             hit == {j \in 1..Len(out) : SameRule(out[j], st)}
             j0 == CHOOSE j \in hit : \A h \in hit : j <= h
         IN  IF hit = {}
             THEN combineFrom(sheet, Append(out, st), i + 1)
             ELSE combineFrom(sheet,
                      [out EXCEPT ![j0].decl = @ \o newDecls(out[j0], st)], i + 1)

combine(sheet) == combineFrom(sheet, <<>>, 1)

----------------------------------------------------------------------------
(* interpret and compile.  acc is what a call has built so far: success,   *)
(* ignored, the style sheet, the utilities cache, whether an exception is  *)
(* propagating, and the log of what the call did.                          *)

NewAcc(p) ==
    [success |-> <<>>, ignored |-> <<>>, styleSheet |-> <<>>,
     utilities |-> p.cache.utilities, threw |-> FALSE, log |-> <<>>]

Logged(acc, ev, sel) == [acc EXCEPT !.log = Append(@, [ev |-> ev, sel |-> sel])]

\* an exclude test that matches no selector
NeverExcluded(p, selector) == FALSE

\* utils/tools testRegexr(selector, exclude) behind `this._config.exclude &&`:
\* the exclude patterns are known by the set of selectors they match
Excluded(p, selector) ==
    /\ Truthy(p.config, "exclude")
    /\ selector \in p.config.exclude.matches

\* _hIgnored(className) of interpret and of compile; handleIgnored is known
\* by the class names it returns a style for
_hIgnored(acc, className, handleIgnored) ==
    LET a0 == Logged(acc, "handleIgnored", className)
        a1 == IF handleIgnored.t = "undef" THEN acc
              ELSE IF className \in handleIgnored.accepts
              THEN [a0 EXCEPT !.styleSheet = Append(@, Style(Dot(className), "handled", "utilities")),
                              !.success = Append(@, className)]
              ELSE [a0 EXCEPT !.ignored = Append(@, className)]
    IN  [a1 EXCEPT !.ignored = Append(@, className)]

\* the branch of _gStyle for a selector that names a plugin's utility or
\* component; StyleSheet.add of undefined adds nothing
pluginSelector(p, variants, selector) ==
    /\ Len(variants) > 0 /\ variants[1] # ""
    /\ selector \in DOMAIN Spread(p.plugin.utilities, p.plugin.components)

addPluginSelector(p, acc, selector) ==
    [acc EXCEPT !.success = Append(@, selector),
                !.styleSheet = @ \o (IF selector \in DOMAIN p.plugin.utilities
                                     THEN p.plugin.utilities[selector] ELSE <<>>)]

\* what follows extract in _gStyle, styles being the restyled result
wrapAndAdd(p, acc, variants, selector, styles) ==
    LET wrapped == wrapWithVariants(p, variants, styles)
    IN  IF wrapped.threw THEN [acc EXCEPT !.threw = TRUE]
        ELSE [Logged(acc, "add", selector)
                EXCEPT !.success = Append(@, selector),
                       !.styleSheet = @ \o wrapped.styles]

\* _gStyle(baseClass, variants, selector, important, prefix) of interpret
interpret_gStyle(p, acc, baseClass, variants, selector, important, handleIgnored) ==
    LET a0 == Logged(acc, "gStyle", selector)
        a1 == Logged(a0, "extract", selector)
        result == extract(p, baseClass)
    IN  IF Excluded(p, selector) THEN [a0 EXCEPT !.ignored = Append(@, selector)]
        ELSE IF pluginSelector(p, variants, selector) THEN addPluginSelector(p, a0, selector)
        ELSE IF result.t = "RangeError" THEN [a1 EXCEPT !.threw = TRUE]
        ELSE IF result.t = "undef" THEN _hIgnored(a1, selector, handleIgnored)
        ELSE wrapAndAdd(p, a1, variants, selector,
                        restyle(p, result, DotEscaped(selector), important))

\* _hGroup(obj, parentVariants) of interpret: _eval on the elements of list
\* from the i-th on.  A nested group is given obj.variants as its parent's
RECURSIVE interpret_eval(_, _, _, _, _, _), interpret_hGroup(_, _, _, _, _, _, _)
interpret_eval(p, acc, obj, parentVariants, u, handleIgnored) ==
    IF u.type = "group"
    THEN interpret_hGroup(p, acc, u, obj.variants, u.content, 1, handleIgnored)
    ELSE IF u.type = "alias" /\ u.content \in DOMAIN p.plugin.alias
    THEN interpret_hGroup(p, acc, obj, parentVariants, p.plugin.alias[u.content], 1,
                          handleIgnored)
    ELSE LET variants == parentVariants \o obj.variants \o u.variants
             important == obj.important \/ u.important
             selector == (IF important THEN "!" ELSE "")
                             \o Join(variants \o <<u.content>>, ":")
         IN  interpret_gStyle(p, acc, u.content, variants, selector, important,
                              handleIgnored)

interpret_hGroup(p, acc, obj, parentVariants, list, i, handleIgnored) ==
    IF i > Len(list) \/ acc.threw THEN acc
    ELSE interpret_hGroup(p,
             interpret_eval(p, acc, obj, parentVariants, list[i], handleIgnored),
             obj, parentVariants, list, i + 1, handleIgnored)

\* _gAst(ast) of interpret, from the i-th element on
RECURSIVE _gAst(_, _, _, _, _, _)
_gAst(p, acc, ast, i, ignoreProcessed, handleIgnored) ==
    IF i > Len(ast) \/ acc.threw THEN acc
    ELSE LET obj == ast[i]
             seen == \E j \in 1..Len(acc.utilities) : acc.utilities[j] = obj.raw
             a0 == IF ignoreProcessed
                   THEN [acc EXCEPT !.utilities = Append(@, obj.raw)] ELSE acc
             a1 == IF obj.type = "utility"
                   THEN IF obj.content # ""
                        THEN interpret_gStyle(p, a0, obj.content, obj.variants, obj.raw,
                                              obj.important, handleIgnored)
                        ELSE a0
                   ELSE IF obj.type = "group"
                   THEN interpret_hGroup(p, a0, obj, <<>>, obj.content, 1, handleIgnored)
                   ELSE IF obj.type = "alias" /\ obj.content \in DOMAIN p.plugin.alias
                   THEN _gAst(p, a0, p.plugin.alias[obj.content], 1, ignoreProcessed,
                              handleIgnored)
                   ELSE _hIgnored(a0, obj.raw, handleIgnored)
         IN  _gAst(p, IF ignoreProcessed /\ seen THEN acc ELSE a1, ast, i + 1,
                   ignoreProcessed, handleIgnored)

\* an interpret that never consults nor fills the utilities cache
interpretAll(p, classNames, ignoreProcessed, handleIgnored) ==
    LET ast == parse(classNames, p.cache.variants)
        acc == _gAst(p, NewAcc(p), ast, 1, FALSE, handleIgnored)
    IN  [acc EXCEPT !.styleSheet = sort(@)]

\* Processor.interpret(classNames, ignoreProcessed, handleIgnored): what it
\* returns, and the utilities cache it leaves
interpret(p, classNames, ignoreProcessed, handleIgnored) ==
    LET ast == parse(classNames, p.cache.variants)
        acc == _gAst(p, NewAcc(p), ast, 1, ignoreProcessed, handleIgnored)
    IN  [acc EXCEPT !.styleSheet = sort(@)]

\* utils/tools hash(str): the name derived from a string
hash(str) == "#" \o str

\* the class names a prefix can be stripped from
ClassNames == staticUtilities \cup dynamicUtilities \cup {"zzz", "btn"}

\* Processor.removePrefix(className)
removePrefix(p, className) ==
    IF Truthy(p.config, "prefix")
          /\ \E c \in ClassNames : className = p.config.prefix.s \o c
    THEN CHOOSE c \in ClassNames : className = p.config.prefix.s \o c
    ELSE className

\* the result of extract as compile's _gStyle restyles it: in an array a
\* Keyframes keeps its selector and is given the order 20
compileRestyle(p, result, selector, important) ==
    LET one(s) == IF s.kind = "Keyframes" THEN [s EXCEPT !.meta.order = 20]
                  ELSE markAsImportant(p, [s EXCEPT !.selector = selector], important)
    IN  IF result.t = "style"
        THEN <<markAsImportant(p, [result.s EXCEPT !.selector = selector], important)>>
        ELSE [i \in 1..Len(result.l) |-> one(result.l[i])]

\* _gStyle(baseClass, variants, selector, important) of compile
compile_gStyle(p, acc, baseClass, variants, selector, important, buildSelector, handleIgnored) ==
    LET a0 == Logged(acc, "gStyle", selector)
        a1 == Logged(a0, "extract", selector)
        result == extract(p, baseClass)
    IN  IF Excluded(p, selector) THEN [a0 EXCEPT !.ignored = Append(@, selector)]
        ELSE IF pluginSelector(p, variants, selector) THEN addPluginSelector(p, a0, selector)
        ELSE IF result.t = "RangeError" THEN [a1 EXCEPT !.threw = TRUE]
        ELSE IF result.t = "undef" THEN _hIgnored(a1, selector, handleIgnored)
        ELSE wrapAndAdd(p, a1, variants, selector,
                        compileRestyle(p, result, buildSelector, important))

\* _hGroup(obj, parentVariants) of compile, from the i-th child on
RECURSIVE compile_hGroup(_, _, _, _, _, _, _)
compile_hGroup(p, acc, obj, parentVariants, i, buildSelector, handleIgnored) ==
    IF i > Len(obj.content) \/ acc.threw THEN acc
    ELSE LET u == obj.content[i]
             variants == parentVariants \o obj.variants \o u.variants
             selector == Join(variants \o <<u.content>>, ":")
             a1 == IF u.type = "group"
                   THEN compile_hGroup(p, acc, u, obj.variants, 1, buildSelector,
                                       handleIgnored)
                   ELSE compile_gStyle(p, acc, removePrefix(p, u.content), variants,
                                       selector, obj.important \/ u.important,
                                       buildSelector, handleIgnored)
         IN  compile_hGroup(p, a1, obj, parentVariants, i + 1, buildSelector,
                            handleIgnored)

\* the ast.forEach of compile, from the i-th element on
RECURSIVE compileFrom(_, _, _, _, _, _)
compileFrom(p, acc, ast, i, buildSelector, handleIgnored) ==
    IF i > Len(ast) \/ acc.threw THEN acc
    ELSE LET obj == ast[i]
             a1 == IF obj.type = "utility"
                   THEN IF obj.content # ""
                        THEN compile_gStyle(p, acc, removePrefix(p, obj.content),
                                            obj.variants, obj.raw, obj.important,
                                            buildSelector, handleIgnored)
                        ELSE acc
                   ELSE IF obj.type = "group"
                   THEN compile_hGroup(p, acc, obj, <<>>, 1, buildSelector, handleIgnored)
                   ELSE _hIgnored(acc, obj.raw, handleIgnored)
         IN  compileFrom(p, a1, ast, i + 1, buildSelector, handleIgnored)

\* a lookup that finds nothing in the cache
neverIncludes(list, x) == FALSE

\* this._cache.classes.includes(className)
includes(list, x) == \E j \in 1..Len(list) : list[j] = x

\* an end of compile that keeps className whatever succeeded
compiledNamed(p, name, ignoreGenerated, acc) ==
    [r |-> [acc EXCEPT !.styleSheet = combine(sort(@))],
     className |-> Str(name),
     classes |-> IF ignoreGenerated /\ ~acc.threw
                 THEN Append(p.cache.classes, name) ELSE p.cache.classes,
     short |-> FALSE]

\* the end of compile: className is kept when something succeeded, and is
\* then pushed on the classes cache under ignoreGenerated
compiled(p, name, ignoreGenerated, acc) ==
    LET className == IF Len(acc.success) > 0 THEN Str(name) ELSE Undefined
    IN  [r |-> [acc EXCEPT !.styleSheet = combine(sort(@))],
         className |-> className,
         classes |-> IF ignoreGenerated /\ className.t = "str" /\ ~acc.threw
                     THEN Append(p.cache.classes, name) ELSE p.cache.classes,
         short |-> FALSE]

\* compile once className is known: the early return on a cached name, or
\* the walk of the ast
compileAs(p, classNames, name, ignoreGenerated, handleIgnored) ==
    IF ignoreGenerated /\ includes(p.cache.classes, name)
    THEN [r |-> NewAcc(p), className |-> Str(name), classes |-> p.cache.classes,
          short |-> TRUE]
    ELSE compiled(p, name, ignoreGenerated,
                  compileFrom(p, NewAcc(p), parse(classNames, p.cache.variants), 1,
                              Dot(name), handleIgnored))

\* Processor.compile(classNames, prefix, showComment, ignoreGenerated,
\* handleIgnored, outputClassName): what it returns (className included) and
\* the classes cache it leaves
compile(p, classNames, prefix, ignoreGenerated, handleIgnored, outputClassName) ==
    compileAs(p, classNames,
              IF outputClassName.t = "str" THEN outputClassName.s
              ELSE prefix \o hash(normalized(classNames)),
              ignoreGenerated, handleIgnored)

----------------------------------------------------------------------------
(* attributify.  An attribute name is `!`? word sep word ... (sep `:` or   *)
(* `-`); a value is `!`? seg:...:seg, the last segment with a leading `-`  *)
(* when negative.                                                          *)

keyText(key) == (IF key.bang THEN "!" ELSE "") \o Join(key.words, key.sep)

\* Processor.e(selector), cssEscape, on an attribute name: `!` and `:` are
\* escaped with a backslash
e(key) ==
    (IF key.bang THEN "\\!" ELSE "")
        \o Join(key.words, IF key.sep = ":" THEN "\\:" ELSE key.sep)

lastSeg(value) == (IF value.neg THEN "-" ELSE "") \o value.segs[Len(value.segs)]

valueText(value) ==
    (IF value.bang THEN "!" ELSE "")
        \o Join(SubSeq(value.segs, 1, Len(value.segs) - 1) \o <<lastSeg(value)>>, ":")

\* a selector that is [key~="value"] for every value
buildWordSelector(key, value, equal) ==
    "[" \o e(key) \o "~=" \o "\"" \o valueText(value) \o "\"]"

buildSelectorOf(key, value, equal) ==
    "[" \o e(key) \o (IF equal THEN "=" ELSE "~=") \o "\"" \o valueText(value) \o "\"]"

\* the switch on `last` of attributify's _gStyle, for the attribute names
\* of the model: display, pos and position drop the name, blend gains mix-,
\* any other name of the model is left as composed
special(last, seg, neg, utility) ==
    CASE last \in {"display", "pos", "position"} -> (IF neg THEN "-" ELSE "") \o seg
      [] last = "blend" -> "mix-" \o utility
      [] OTHER -> utility

\* _gStyle(key, value, equal) of attributify
attributify_gStyle(p, acc, key, value, equal) ==
    LET buildSelector == buildSelectorOf(key, value, equal)
        words == key.words
        n == Len(words)
        id == IF n = 0 THEN "" ELSE words[n]
        split == SubSeq(value.segs, 1, Len(value.segs) - 1)
        isVariant == id \in DOMAIN p.variants /\ id # "svg"
        minmax == n >= 2 /\ words[n - 1] \in {"min", "max"}
        variants == IF isVariant THEN words \o split
                    ELSE IF minmax THEN SubSeq(words, 1, n - 2) \o split
                    ELSE SubSeq(words, 1, n - 1) \o split
        last == IF minmax THEN words[n - 1] \o "-" \o words[n] ELSE id
        seg == value.segs[Len(value.segs)]
        utility == IF isVariant THEN lastSeg(value)
                   ELSE special(last, seg, value.neg,
                                (IF value.neg THEN "-" ELSE "") \o last \o "-" \o seg)
        a0 == Logged(acc, "gStyle", buildSelector)
        a1 == Logged(a0, "extract", buildSelector)
        style == extract(p, utility)
        important == key.bang \/ value.bang
    IN  IF ~isVariant /\ n = 0 THEN [a0 EXCEPT !.ignored = Append(@, buildSelector)]
        ELSE IF style.t = "RangeError" THEN [a1 EXCEPT !.threw = TRUE]
        ELSE IF style.t = "undef" THEN [a1 EXCEPT !.ignored = Append(@, buildSelector)]
        ELSE wrapAndAdd(p, a1, variants, buildSelector,
                        restyle(p, style, Str(buildSelector), important))

\* the values of one attribute, from the i-th on
RECURSIVE attributifyValues(_, _, _, _, _)
attributifyValues(p, acc, key, value, i) ==
    IF i > Len(value.vals) \/ acc.threw THEN acc
    ELSE attributifyValues(p,
             attributify_gStyle(p, acc, key, value.vals[i], value.single),
             key, value, i + 1)

RECURSIVE attributifyFrom(_, _, _, _)
attributifyFrom(p, acc, attrs, i) ==
    IF i > Len(attrs) \/ acc.threw THEN acc
    ELSE attributifyFrom(p, attributifyValues(p, acc, attrs[i].key, attrs[i].value, 1),
                         attrs, i + 1)

\* Processor.attributify(attrs)
attributify(p, attrs) ==
    LET acc == attributifyFrom(p, NewAcc(p), attrs, 1)
    IN  [acc EXCEPT !.styleSheet = combine(sort(@))]

----------------------------------------------------------------------------
(* Plugins and the loading of a configuration *)

\* combineConfig on two themes, whose key order is kept: a's keys, then the
\* keys only b has
RECURSIVE combineDict(_, _, _)
combineDict(a, b, i) ==
    IF i > Len(b) THEN a
    ELSE LET k == b[i].k
             av == OGet(a, k)
             bv == b[i].v
             v == IF av.t = "obj" /\ bv.t = "obj" THEN Obj(combineConfig(av.o, bv.o))
                  ELSE IF av.t = "dict" /\ bv.t = "dict" THEN Dict(combineDict(av.d, bv.d, 1))
                  ELSE bv
         IN  combineDict(OSet(a, k, v), b, i + 1)

\* the loop of loadPlugin over the plugin theme's extend
RECURSIVE extendFrom(_, _, _)
extendFrom(pluginTheme, extendTheme, i) ==
    IF i > Len(extendTheme) THEN pluginTheme
    ELSE LET key == extendTheme[i].k
             value == extendTheme[i].v
             themeValue == OGet(pluginTheme, key)
             next == IF themeValue.t = "obj"
                     THEN OSet(pluginTheme, key, Obj(Spread(themeValue.o, AsObj(value))))
                     ELSE IF value.t = "obj" THEN OSet(pluginTheme, key, value)
                     ELSE pluginTheme
         IN  extendFrom(next, extendTheme, i + 1)

\* this._config = config; this._theme = config.theme
setConfig(p, config) == [p EXCEPT !.config = config, !.theme = config.theme]

\* this._config = this._resolveFunction(this._config), with this._theme the
\* same object as this._config.theme
resolveTheme(p) ==
    IF p.threw THEN p ELSE setConfig(p, _resolveFunction(p.config, p.theme, TRUE))

\* the branch `if (config)` of loadPlugin, config being the plugin's config
\* after its _resolveFunction; a plugin's config of the model holds at most
\* a theme
mergePluginConfig(p, config) ==
    LET merged == IF "theme" \in DOMAIN config
                  THEN combineDict(config.theme, p.config.theme, 1) ELSE p.config.theme
        ext == OGet(merged, "extend")
        pluginTheme == IF ext.t = "dict" THEN extendFrom(merged, ext.d, 1) ELSE merged
    IN  [p EXCEPT !.config = Spread(Spread(config, p.config), Only("theme", pluginTheme)),
                  !.theme = pluginTheme]

\* this._variants = { ...this.resolveVariants() } in loadPlugin
resetVariants(p) == [p EXCEPT !.variants = resolveVariants(p)]

\* Processor.loadPlugin({handler, config})
loadPlugin(p, plug) ==
    handlerFrom(
        resetVariants(resolveTheme(
            IF plug.hasConfig
            THEN mergePluginConfig(p, _resolveFunction(plug.config, p.theme, FALSE))
            ELSE p)),
        plug.handler, 1)

RECURSIVE pluginsFrom(_, _, _)
pluginsFrom(p, plugins, i) ==
    IF i > Len(plugins) \/ p.threw THEN p
    ELSE pluginsFrom(loadPlugin(p, plugins[i]), plugins, i + 1)

\* Processor._loadVariables()
_loadVariables(p) ==
    IF p.threw \/ themeOf(p.theme, "vars").t = "undef" THEN p
    ELSE addBase(p, [key |-> ":root", decl |-> themeOf(p.theme, "vars"), atRules |-> <<>>])

\* config/order pluginOrder: the names of the core plugins
pluginOrder == {"container", "display"}

\* the assignment of this._plugin.core in resolveConfig
coreOf(p) ==
    IF ~Truthy(p.config, "corePlugins") THEN p.plugin.core
    ELSE IF p.config.corePlugins.t = "arr"
    THEN Obj([n \in p.config.corePlugins.a |-> TRUE])
    ELSE Obj(Spread([n \in pluginOrder |-> TRUE], p.config.corePlugins.o))

\* this._config.plugins?.map(...) of resolveConfig
loadPlugins(p) ==
    IF "plugins" \in DOMAIN p.config THEN pluginsFrom(p, p.config.plugins, 1) ELSE p

\* this._variants = { ...this._variants, ...this.resolveVariants() } and
\* this._cache.variants = Object.keys(this._variants)
mergeVariants(p) ==
    IF p.threw THEN p
    ELSE [p EXCEPT !.variants = Spread(@, resolveVariants(p)),
                   !.cache.variants = DOMAIN Spread(p.variants, resolveVariants(p))]

\* if (this._config.corePlugins) this._plugin.core = ...
setCore(p) == IF p.threw THEN p ELSE [p EXCEPT !.plugin.core = coreOf(p)]

\* Processor.resolveConfig(config, presets)
resolveConfig(p, config, presets) ==
    setCore(_loadVariables(mergeVariants(resolveTheme(loadPlugins(
        setConfig(p, _resolveConfig(
            Spread(config, Only("exclude", IF "exclude" \in DOMAIN config
                                           THEN config.exclude ELSE Undefined)),
            presets)))))))

\* this._plugin.shortcuts[key] = the styles compile returned, their
\* meta.type updated to components
addShortcut(p, key, out) ==
    IF out.r.threw THEN [p EXCEPT !.threw = TRUE]
    ELSE [p EXCEPT !.plugin.shortcuts =
             Spread(@, Only(key, [j \in 1..Len(out.r.styleSheet) |->
                                     [out.r.styleSheet[j] EXCEPT !.meta.type = "components"]]))]

\* Processor.loadShortcuts(shortcuts), the shortcuts being class strings:
\* each one is compiled under the name of its key.  names lists the keys
RECURSIVE loadShortcuts(_, _, _, _)
loadShortcuts(p, shortcuts, names, i) ==
    IF i > Len(names) \/ p.threw THEN p
    ELSE loadShortcuts(
             addShortcut(p, names[i],
                         compile(p, shortcuts[names[i]], "windi-", FALSE, Undefined,
                                 Str(names[i]))),
             shortcuts, names, i + 1)

\* Processor.loadAlias(alias)
loadAlias(p, alias) ==
    [p EXCEPT !.plugin.alias =
        Spread(@, [k \in DOMAIN alias |-> parse(alias[k], p.cache.variants)])]

\* config: the base configuration
baseConfig ==
    [theme |-> <<[k |-> "screens", v |-> Obj([sm |-> Str("640px")])],
                 [k |-> "colors", v |-> Obj([red |-> Str("#f00"),
                                             gray |-> Obj([light |-> Str("#eee")])])],
                 [k |-> "textColor", v |-> Fn([c |-> "ref", path |-> "colors"])]>>,
     prefixer |-> [t |-> "true"],
     separator |-> Str(":")]

\* the keys of an object in a fixed order
RECURSIVE Listed(_)
Listed(S) == IF S = {} THEN <<>>
             ELSE LET x == CHOOSE x \in S : TRUE IN <<x>> \o Listed(S \ {x})

\* this._config.shortcuts && this.loadShortcuts(this._config.shortcuts)
shortcutsOf(p) ==
    IF ~p.threw /\ "shortcuts" \in DOMAIN p.config
    THEN loadShortcuts(p, p.config.shortcuts, Listed(DOMAIN p.config.shortcuts), 1)
    ELSE p

\* this._config.alias && this.loadAlias(this._config.alias)
aliasOf(p) ==
    IF ~p.threw /\ "alias" \in DOMAIN p.config THEN loadAlias(p, p.config.alias) ELSE p

\* Processor.loadConfig(config)
loadConfig(p, config) == aliasOf(shortcutsOf(resolveConfig(p, config, baseConfig)))

\* the fields of a Processor before its constructor runs
New ==
    [config |-> EmptyObj, theme |-> <<>>, variants |-> EmptyObj,
     cache |-> [html |-> <<>>, classes |-> <<>>, utilities |-> <<>>, variants |-> {}],
     plugin |-> [core |-> Undefined, static |-> EmptyObj, dynamic |-> EmptyObj,
                 utilities |-> EmptyObj, components |-> EmptyObj,
                 preflights |-> EmptyObj, shortcuts |-> EmptyObj, alias |-> EmptyObj],
     threw |-> FALSE]

----------------------------------------------------------------------------
(* The inputs of the model *)

\* the most loadConfig calls after the constructor's
MaxLoads == 2

\* the most tokens of a class string
MaxTokens == 1

\* the most registrations of dynamic generators
MaxRegs == 3

Word(segs) == [type |-> "word", bang |-> FALSE, segs |-> segs]

Group(bang, segs, children) ==
    [type |-> "group", bang |-> bang, segs |-> segs, children |-> children]

\* bg-red, hover:bg-red, zzz, foo:bg-red, animate-spin, !hover:(bg-red zzz),
\* !sm:(hover:(bg-red)), sm:(hover:(dark:(bg-red))), kf-1, hover:abc
Tokens ==
    {Word(<<"bg-red">>), Word(<<"hover", "bg-red">>), Word(<<"zzz">>),
     Word(<<"foo", "bg-red">>), Word(<<"animate-spin">>),
     Group(TRUE, <<"hover">>, <<Word(<<"bg-red">>), Word(<<"zzz">>)>>),
     Group(TRUE, <<"sm">>, <<Group(FALSE, <<"hover">>, <<Word(<<"bg-red">>)>>)>>),
     Group(FALSE, <<"sm">>,
           <<Group(FALSE, <<"hover">>,
                   <<Group(FALSE, <<"dark">>, <<Word(<<"bg-red">>)>>)>>)>>),
     Word(<<"kf-1">>), Word(<<"hover", "abc">>)}

ClassStrings == UNION {[1..n -> Tokens] : n \in 1..MaxTokens}

\* handleIgnored: absent, or a callback that returns a style for zzz
Handlers == {Undefined, [t |-> "handler", accepts |-> {"zzz", "!hover:zzz", "hover:zzz"}]}

Key(words, sep) == [bang |-> FALSE, words |-> words, sep |-> sep]

Value(segs) == [bang |-> FALSE, neg |-> FALSE, segs |-> segs]

One(v) == [single |-> TRUE, vals |-> <<v>>]

Attr(key, value) == <<[key |-> key, value |-> value]>>

\* attribute maps: bg="red", bg="red hover:red", sm:bg="red", foo-bg="red",
\* bg="foo:red", hover="bg-red", bg="zzz", animate="spin", bg="!red",
\* kf="1"
AttrMaps ==
    {Attr(Key(<<"bg">>, ":"), One(Value(<<"red">>))),
     Attr(Key(<<"bg">>, ":"),
          [single |-> FALSE, vals |-> <<Value(<<"red">>), Value(<<"hover", "red">>)>>]),
     Attr(Key(<<"sm", "bg">>, ":"), One(Value(<<"red">>))),
     Attr(Key(<<"foo", "bg">>, "-"), One(Value(<<"red">>))),
     Attr(Key(<<"bg">>, ":"), One(Value(<<"foo", "red">>))),
     Attr(Key(<<"hover">>, ":"), One(Value(<<"bg-red">>))),
     Attr(Key(<<"bg">>, ":"), One(Value(<<"zzz">>))),
     Attr(Key(<<"animate">>, ":"), One(Value(<<"spin">>))),
     Attr(Key(<<"bg">>, ":"), One([Value(<<"red">>) EXCEPT !.bang = TRUE])),
     Attr(Key(<<"kf">>, ":"), One(Value(<<"1">>)))}

Regexps(matches) == [t |-> "regexps", matches |-> matches]

Plugin(handler) == [hasConfig |-> FALSE, config |-> EmptyObj, handler |-> handler]

\* the configurations of the main specification: none, two exclude lists, a
\* plugin that registers the variant hover, one that registers the variant
\* foo and a utility, an allow-list of core plugins, a theme with other
\* screens and with vars, a plugin whose generator returns one keyframes, a
\* plugin that registers the component `.hover\\:abc`
Configs ==
    {EmptyObj,
     [exclude |-> Regexps({"bg-red", "hover:bg-red", "!hover:bg-red",
                           "[bg=\"red\"]", "[bg~=\"red\"]"})],
     [exclude |-> Regexps({"zzz", "!hover:zzz", "[bg=\"zzz\"]"})],
     [plugins |-> <<Plugin(<<[op |-> "addVariant", name |-> "hover", gen |-> "g1"]>>)>>],
     [plugins |-> <<Plugin(<<[op |-> "addVariant", name |-> "foo", gen |-> "g2"],
                             [op |-> "addUtilities",
                              rule |-> [sel |-> "btn", isClass |-> TRUE, decl |-> "btn"]]>>)>>],
     [corePlugins |-> [t |-> "arr", a |-> {"display"}]],
     [theme |-> <<[k |-> "screens", v |-> Obj([md |-> Str("768px")])],
                  [k |-> "vars", v |-> Obj([brand |-> Str("#fff")])]>>],
     [plugins |-> <<Plugin(<<[op |-> "addDynamic", key |-> "kf-1",
                              gen |-> [id |-> "g3", accepts |-> {"kf-1"},
                                       keyframes |-> TRUE]]>>)>>],
     [plugins |-> <<Plugin(<<[op |-> "addComponents",
                              rule |-> [sel |-> "hover:abc", isClass |-> TRUE,
                                        decl |-> "abc"]]>>)>>]}

----------------------------------------------------------------------------
(* The Processor as a state machine *)

This ==
    [config |-> _config, theme |-> _theme, variants |-> _variants, cache |-> _cache,
     plugin |-> _plugin, threw |-> FALSE]

Becomes(p) ==
    /\ _config' = p.config
    /\ _theme' = p.theme
    /\ _variants' = p.variants
    /\ _cache' = p.cache
    /\ _plugin' = p.plugin

NoHistory == [prev |-> [op |-> "none"], loads |-> 0, regs |-> 0, dynamic |-> EmptyObj]

\* no command line: the Processor is used as a library
NoCli ==
    /\ args = EmptyObj
    /\ files = <<>>
    /\ styleSheets = <<>>
    /\ preflights = <<>>
    /\ written = <<>>
    /\ watchers = {}

\* new Processor(config)
Processor(config) ==
    LET p == loadConfig(New, config)
    IN  /\ _config = p.config
        /\ _theme = p.theme
        /\ _variants = p.variants
        /\ _cache = p.cache
        /\ _plugin = p.plugin
        /\ call = [op |-> "new", config |-> config, threw |-> p.threw]
        /\ history = NoHistory

\* new Processor(config) in a program of its own, the config being one of
\* configs
Constructed(configs) ==
    /\ \E config \in configs : Processor(config)
    /\ NoCli

Init == Constructed(Configs)

\* a Processor whose interpret files the styles it built in the registry
interpretRegisters(p, out) ==
    [p EXCEPT !.cache.utilities = out.utilities,
              !.plugin.static = Spread(@, Only("*", out.styleSheet))]

\* the Processor after interpret: the utilities interpret has pushed to
\* this._cache.utilities, and nothing else written
afterInterpret(p, out) == [p EXCEPT !.cache.utilities = out.utilities]

\* a Processor whose classes cache remembers the latest name only
lastCompile(p, out) ==
    [p EXCEPT !.cache.classes = IF out.classes = <<>> THEN <<>>
                                ELSE <<out.classes[Len(out.classes)]>>]

\* the Processor after compile: the name compile has pushed to
\* this._cache.classes, and nothing else written
afterCompile(p, out) == [p EXCEPT !.cache.classes = out.classes]

\* what interpret returns, as the last call
Interpreted(classNames, ignoreProcessed, handleIgnored) ==
    LET out == interpret(This, classNames, ignoreProcessed, handleIgnored)
    IN  /\ call' = [op |-> "interpret", classNames |-> classNames,
                    ignoreProcessed |-> ignoreProcessed,
                    handleIgnored |-> handleIgnored, success |-> out.success,
                    ignored |-> out.ignored, styleSheet |-> out.styleSheet,
                    log |-> out.log, threw |-> out.threw]
        /\ Becomes(afterInterpret(This, out))
        /\ UNCHANGED cli

\* what compile returns, as the last call
Compiled(classNames, ignoreGenerated, handleIgnored) ==
    LET out == compile(This, classNames, "windi-", ignoreGenerated, handleIgnored, Undefined)
    IN  /\ call' = [op |-> "compile", classNames |-> classNames, prefix |-> "windi-",
                    ignoreGenerated |-> ignoreGenerated,
                    handleIgnored |-> handleIgnored, success |-> out.r.success,
                    ignored |-> out.r.ignored, styleSheet |-> out.r.styleSheet,
                    className |-> out.className,
                    log |-> out.r.log, threw |-> out.r.threw]
        /\ Becomes(afterCompile(This, out))
        /\ UNCHANGED cli

\* processor.interpret(classNames, false, handleIgnored)
Interpret ==
    \E classNames \in ClassStrings, handleIgnored \in Handlers :
        /\ Interpreted(classNames, FALSE, handleIgnored)
        /\ UNCHANGED history

\* processor.compile(classNames, 'windi-', false, false, handleIgnored)
Compile ==
    \E classNames \in ClassStrings, handleIgnored \in Handlers :
        /\ Compiled(classNames, FALSE, handleIgnored)
        /\ UNCHANGED history

\* processor.attributify(attrs)
Attributify ==
    \E attrs \in AttrMaps :
        LET out == attributify(This, attrs)
        IN  /\ call' = [op |-> "attributify", attrs |-> attrs, success |-> out.success,
                        ignored |-> out.ignored, styleSheet |-> out.styleSheet,
                        log |-> out.log, threw |-> out.threw]
            /\ UNCHANGED <<_config, _theme, _variants, _cache, _plugin, history, cli>>

Next == Interpret \/ Compile \/ Attributify

\* a Processor of any configuration, and the three compilations on it
Spec == Init /\ [][Next]_vars

----------------------------------------------------------------------------
(* Reconfiguration: loadConfig on a Processor that was configured before *)

\* processor.loadConfig(config)
Loaded(config) ==
    /\ Becomes(loadConfig(This, config))
    /\ call' = [op |-> "loadConfig", config |-> config,
                threw |-> loadConfig(This, config).threw]
    /\ UNCHANGED cli

LoadConfig ==
    \E config \in Configs :
        /\ history.loads < MaxLoads
        /\ Loaded(config)
        /\ history' = [history EXCEPT !.loads = @ + 1]

NextLoad == LoadConfig

\* a Processor of any configuration, configured again and again
SpecLoad == Init /\ [][NextLoad]_vars

----------------------------------------------------------------------------
(* The classes cache: compile called again and again on one Processor *)

\* bg-red zzz, zzz, !hover:(bg-red zzz)
CompileInputs ==
    {<<Word(<<"bg-red">>), Word(<<"zzz">>)>>,
     <<Word(<<"zzz">>)>>,
     <<Group(TRUE, <<"hover">>, <<Word(<<"bg-red">>), Word(<<"zzz">>)>>)>>}

InitCache == Constructed({EmptyObj})

\* processor.compile(classNames, 'windi-', false, ignoreGenerated,
\* handleIgnored), the call before being remembered
CompileAgain ==
    \E classNames \in CompileInputs, ignoreGenerated \in BOOLEAN,
       handleIgnored \in Handlers :
        /\ Compiled(classNames, ignoreGenerated, handleIgnored)
        /\ history' = [history EXCEPT !.prev = call]

NextCache == CompileAgain

SpecCache == InitCache /\ [][NextCache]_vars

----------------------------------------------------------------------------
(* The dynamic generators of plugins: registrations and calls *)

DynamicKeys == {"foo", "bar"}

\* two generators, known by the utilities they return a style for
Generators ==
    {[id |-> "g1", accepts |-> {"foo-1", "foo-3"}],
     [id |-> "g2", accepts |-> {"foo-2", "foo-3"}]}

Utilities == {"foo-1", "foo-2", "foo-3", "foo-4"}

InitDynamic == Constructed({EmptyObj})

\* the generators registered under a key so far, oldest first
Registered(key) == IF key \in DOMAIN history.dynamic THEN history.dynamic[key] ELSE <<>>

\* processor.addDynamic(key, generator)
AddDynamic ==
    \E key \in DynamicKeys, generator \in Generators :
        /\ history.regs < MaxRegs
        /\ Becomes(addDynamic(This, key, generator))
        /\ UNCHANGED cli
        /\ call' = [op |-> "addDynamic", key |-> key, generator |-> generator,
                    threw |-> FALSE]
        /\ history' = [history EXCEPT
                          !.regs = @ + 1,
                          !.dynamic = Spread(@, Only(key, Append(Registered(key), generator)))]

\* processor._plugin.dynamic[key](Utility), as extract calls it
InvokeDynamic ==
    \E key \in DOMAIN _plugin.dynamic, className \in Utilities :
        /\ call' = [op |-> "dynamic", key |-> key, className |-> className,
                    result |-> callDynamic(This, _plugin.dynamic[key], className, 1)]
        /\ UNCHANGED <<_config, _theme, _variants, _cache, _plugin, history, cli>>

NextDynamic == AddDynamic \/ InvokeDynamic

SpecDynamic == InitDynamic /\ [][NextDynamic]_vars

----------------------------------------------------------------------------
(* The resolution of themes *)

\* what a user theme or an extension holds under a key: an object, a
\* function that returns an object, a function that returns theme(other)
ThemeValues(other) ==
    {Obj([brand |-> Str("#fff")]),
     Fn([c |-> "const", ret |-> Obj([red |-> Str("#00f")])]),
     Fn([c |-> "ref", path |-> other])}

Entry(k, v) == [k |-> k, v |-> v]

\* user themes: none, one of the categories a, b, colors, or a and b in
\* either order
UserThemes ==
    {<<>>}
    \cup {<<Entry("a", v)>> : v \in ThemeValues("b")}
    \cup {<<Entry("colors", v)>> : v \in ThemeValues("a")}
    \cup {<<Entry("a", v), Entry("b", w)>> : v \in ThemeValues("b"), w \in ThemeValues("a")}
    \cup {<<Entry("b", w), Entry("a", v)>> : v \in ThemeValues("b"), w \in ThemeValues("a")}

\* what theme.extend holds under a category
ExtendValues ==
    {Obj([brand |-> Str("#fff")]),
     Obj([red |-> Str("#00f")]),
     Obj([gray |-> Obj([dark |-> Str("#111")])]),
     Fn([c |-> "const", ret |-> Obj([brand |-> Str("#fff")])])}

Extends ==
    {<<>>} \cup {<<Entry(k, v)>> : k \in {"colors", "textColor", "a"}, v \in ExtendValues}

ThemeConfigs ==
    {[theme |-> IF extend = <<>> THEN user ELSE Append(user, Entry("extend", Dict(extend)))] :
        user \in UserThemes, extend \in Extends}

InitTheme == Constructed(ThemeConfigs)

\* processor.loadConfig(config), the config holding a theme
LoadTheme ==
    \E config \in ThemeConfigs :
        /\ Loaded(config)
        /\ UNCHANGED history

NextTheme == LoadTheme

SpecTheme == InitTheme /\ [][NextTheme]_vars

----------------------------------------------------------------------------
(* The lifetime of one Processor: compilations with the caches on, *)
(* preflight, extract, addVariant and loadConfig in any order       *)

\* lib/preflight: the preflight styles the plugins registered with addBase
RECURSIVE preflightSheet(_, _, _)
preflightSheet(p, keys, i) ==
    IF i > Len(keys) THEN <<>>
    ELSE p.plugin.preflights[keys[i]] \o preflightSheet(p, keys, i + 1)

\* Processor.preflight(html, true, true, true, ignoreProcessed): the sheet
\* it returns and the html cache it leaves
preflight(p, html, ignoreProcessed) ==
    LET id == IF html.t = "str" /\ html.s # "" THEN Str(hash(html.s)) ELSE Undefined
    IN  IF id.t = "str" /\ ignoreProcessed /\ includes(p.cache.html, id.s)
        THEN [styleSheet |-> <<>>, html |-> p.cache.html]
        ELSE [styleSheet |-> preflightSheet(p, Listed(DOMAIN p.plugin.preflights), 1),
              html |-> IF id.t = "str" /\ ignoreProcessed
                       THEN Append(p.cache.html, id.s) ELSE p.cache.html]

\* the Processor after preflight: the id preflight has pushed to
\* this._cache.html, and nothing else written
afterPreflight(p, out) == [p EXCEPT !.cache.html = out.html]

\* bg-red; zzz bg-red; bg-red bg-red
LifeInputs ==
    {<<Word(<<"bg-red">>)>>,
     <<Word(<<"zzz">>), Word(<<"bg-red">>)>>,
     <<Word(<<"bg-red">>), Word(<<"bg-red">>)>>}

\* no html, a document
Htmls == {Undefined, Str("<p class=\"bg-red\">")}

\* bg="red", bg="zzz"
LifeAttrs ==
    {Attr(Key(<<"bg">>, ":"), One(Value(<<"red">>))),
     Attr(Key(<<"bg">>, ":"), One(Value(<<"zzz">>)))}

\* no configuration; a plugin that registers a variant, a utility, a base
\* style and a dynamic generator
LifeConfigs ==
    {EmptyObj,
     [plugins |-> <<Plugin(<<[op |-> "addVariant", name |-> "foo", gen |-> "g2"],
                             [op |-> "addUtilities",
                              rule |-> [sel |-> "btn", isClass |-> TRUE, decl |-> "btn"]],
                             [op |-> "addBase",
                              rule |-> [key |-> "html", decl |-> "base", atRules |-> <<>>]],
                             [op |-> "addDynamic", key |-> "foo",
                              gen |-> [id |-> "g1", accepts |-> {"foo-1"}]]>>)>>]}

\* the most loadConfig calls in the lifetime after the constructor's
MaxReloads == 1

InitLife == Constructed(LifeConfigs)

\* processor.interpret(classNames, ignoreProcessed)
InterpretCached ==
    \E classNames \in LifeInputs, ignoreProcessed \in BOOLEAN :
        /\ Interpreted(classNames, ignoreProcessed, Undefined)
        /\ UNCHANGED history

\* processor.compile(classNames, 'windi-', false, ignoreGenerated)
CompileCached ==
    \E classNames \in LifeInputs, ignoreGenerated \in BOOLEAN :
        /\ Compiled(classNames, ignoreGenerated, Undefined)
        /\ UNCHANGED history

\* processor.attributify(attrs)
AttributifyAttrs ==
    \E attrs \in LifeAttrs :
        LET out == attributify(This, attrs)
        IN  /\ call' = [op |-> "attributify", attrs |-> attrs, success |-> out.success,
                        ignored |-> out.ignored, styleSheet |-> out.styleSheet,
                        log |-> out.log, threw |-> out.threw]
            /\ UNCHANGED <<_config, _theme, _variants, _cache, _plugin, history, cli>>

\* processor.preflight(html, true, true, true, ignoreProcessed)
Preflight ==
    \E html \in Htmls, ignoreProcessed \in BOOLEAN :
        LET out == preflight(This, html, ignoreProcessed)
        IN  /\ call' = [op |-> "preflight", html |-> html,
                        ignoreProcessed |-> ignoreProcessed,
                        styleSheet |-> out.styleSheet, threw |-> FALSE]
            /\ Becomes(afterPreflight(This, out))
            /\ UNCHANGED <<history, cli>>

\* processor.extract(className)
Extract ==
    \E className \in {"bg-red", "btn", "foo-1", "zzz"} :
        /\ call' = [op |-> "extract", className |-> className,
                    result |-> extract(This, className), threw |-> FALSE]
        /\ UNCHANGED <<_config, _theme, _variants, _cache, _plugin, history, cli>>

\* processor.addVariant(name, generator)
AddVariant ==
    \E name \in {"bar"} :
        /\ Becomes(addVariant(This, name, "g1"))
        /\ call' = [op |-> "addVariant", name |-> name, threw |-> FALSE]
        /\ UNCHANGED <<history, cli>>

\* processor.loadConfig(config)
Reload ==
    \E config \in LifeConfigs :
        /\ history.loads < MaxReloads
        /\ Loaded(config)
        /\ history' = [history EXCEPT !.loads = @ + 1]

NextLife ==
    \/ InterpretCached
    \/ CompileCached
    \/ AttributifyAttrs
    \/ Preflight
    \/ Extract
    \/ AddVariant
    \/ Reload

SpecLife == InitLife /\ [][NextLife]_vars

----------------------------------------------------------------------------
(* The command line: build over the input files, and the watcher.  A    *)
(* document is what HTMLParser finds in it: the class attributes, and   *)
(* all the attributes in document order.                                *)

\* utils/style StyleSheet.extend(other): the entries of other appended
extend(sheet, other) == sheet \o other

\* sheets.reduce((p, c) => p.extend(c), new StyleSheet())
RECURSIVE extendAll(_, _)
extendAll(sheets, i) ==
    IF i > Len(sheets) THEN <<>>
    ELSE extend(sheets[i], extendAll(sheets, i + 1))

\* Object.values(o)
Values(o) == [i \in 1..Len(o) |-> o[i].v]

\* classes.join(' ')
RECURSIVE joined(_, _)
joined(classes, i) ==
    IF i > Len(classes) THEN <<>> ELSE classes[i] \o joined(classes, i + 1)

\* the write of one call of processor.compile to outputStyle and outputHTML
pushCompiled(out, utility) ==
    [outputStyle |-> Append(out.outputStyle, utility.r.styleSheet),
     outputHTML |-> Append(out.outputHTML,
                           [className |-> utility.className, ignored |-> utility.r.ignored])]

\* parser.parseClasses().forEach of the cli's compile
RECURSIVE compileClasses(_, _, _, _)
compileClasses(p, classes, i, out) ==
    IF i > Len(classes) THEN out
    ELSE compileClasses(p, classes, i + 1,
             pushCompiled(out, compile(p, classes[i], "windi-", FALSE, Undefined, Undefined)))

\* args['--preflight']: preflights[file] = processor.preflight(html)
preflighted(p, a, file, s) ==
    IF a.preflight
    THEN [s EXCEPT !.preflights = OSet(@, file, preflight(p, Str(file), FALSE).styleSheet)]
    ELSE s

\* what the cli's compile records and writes for one file
compiledFile(file, s, out) ==
    [s EXCEPT !.styleSheets = OSet(@, file, extendAll(out.outputStyle, 1)),
              !.written = OSet(@, file \o ".windi.html", out.outputHTML)]

\* compile(files) of the cli, from the i-th file on
RECURSIVE cliCompile(_, _, _, _, _, _)
cliCompile(p, a, fs, names, i, s) ==
    IF i > Len(names) THEN s
    ELSE cliCompile(p, a, fs, names, i + 1,
             preflighted(p, a, names[i],
                 compiledFile(names[i], s,
                     compileClasses(p, OGet(fs, names[i]).classes, 1,
                                    [outputStyle |-> <<>>, outputHTML |-> <<>>]))))

\* interpret(files) of the cli, from the i-th file on: no --fuzzy, and no
\* extractors in the configuration
RECURSIVE cliInterpret(_, _, _, _, _, _)
cliInterpret(p, a, fs, names, i, s) ==
    IF i > Len(names) THEN s
    ELSE cliInterpret(p, a, fs, names, i + 1,
             preflighted(p, a, names[i],
                 [s EXCEPT !.styleSheets =
                     OSet(@, names[i],
                          interpret(p, joined(OGet(fs, names[i]).classes, 1),
                                    FALSE, Undefined).styleSheet)]))

\* parser.parseAttrs().reduceRight(...) of the cli's attributify: class and
\* className are left out, the values of a repeated name are gathered
RECURSIVE attrsFrom(_, _, _)
attrsFrom(parsed, i, a) ==
    IF i = 0 THEN a
    ELSE LET b == parsed[i]
         IN  IF b.key.words \in {<<"class">>, <<"className">>}
             THEN attrsFrom(parsed, i - 1, a)
             ELSE IF \E j \in 1..Len(a) : a[j].key = b.key
             THEN attrsFrom(parsed, i - 1,
                      [j \in 1..Len(a) |->
                          IF a[j].key = b.key
                          THEN [key |-> b.key,
                                value |-> [single |-> FALSE,
                                           vals |-> a[j].value.vals \o b.value.vals]]
                          ELSE a[j]])
             ELSE attrsFrom(parsed, i - 1, Append(a, b))

\* attributify(files) of the cli, from the i-th file on
RECURSIVE cliAttributify(_, _, _, _, _)
cliAttributify(p, fs, names, i, s) ==
    IF i > Len(names) THEN s
    ELSE cliAttributify(p, fs, names, i + 1,
             [s EXCEPT !.styleSheets =
                 OSet(@, names[i],
                      attributify(p, attrsFrom(OGet(fs, names[i]).attrs,
                                               Len(OGet(fs, names[i]).attrs),
                                               <<>>)).styleSheet)])

\* --separate: one css file for each entry of styleSheets
RECURSIVE separate(_, _, _)
separate(a, s, i) ==
    IF i > Len(s.styleSheets) THEN s
    ELSE separate(a,
             [s EXCEPT !.written =
                 OSet(@, s.styleSheets[i].k \o ".windi.css",
                      IF a.preflight /\ OHas(s.preflights, s.styleSheets[i].k)
                      THEN extend(s.styleSheets[i].v, OGet(s.preflights, s.styleSheets[i].k))
                      ELSE s.styleSheets[i].v)],
             i + 1)

\* the one css file of the combined output
combined(a, s) ==
    IF a.preflight
    THEN extend(combine(sort(extendAll(Values(s.preflights), 1))),
                combine(sort(extendAll(Values(s.styleSheets), 1))))
    ELSE combine(sort(extendAll(Values(s.styleSheets), 1)))

\* the output of build
output(a, s) ==
    IF a.separate THEN separate(a, s, 1)
    ELSE [s EXCEPT !.written = OSet(@, "windi.css", combined(a, s))]

\* the modes of build
moded(p, a, fs, names, s) ==
    IF a.compile THEN cliCompile(p, a, fs, names, 1, s)
    ELSE cliInterpret(p, a, fs, names, 1, s)

attributified(p, a, fs, names, s) ==
    IF a.attributify THEN cliAttributify(p, fs, names, 1, s) ELSE s

\* build(files) of the cli, without --style: the maps and the written
\* files it leaves
build(p, a, fs, names, s) ==
    output(a, attributified(p, a, fs, names, moded(p, a, fs, names, s)))

\* the attribute class="..." as parseAttrs reports it
ClassAttr == [key |-> Key(<<"class">>, ":"), value |-> One(Value(<<"x">>))]

\* <p class="bg-red" bg="red">; <p class="block">; <p class="hover:bg-red">;
\* <p class="bg-red" bg="zzz"><i class="block zzz" bg="red">
Docs ==
    {[classes |-> <<<<Word(<<"bg-red">>)>>>>,
      attrs |-> <<ClassAttr, [key |-> Key(<<"bg">>, ":"), value |-> One(Value(<<"red">>))]>>],
     [classes |-> <<<<Word(<<"block">>)>>>>,
      attrs |-> <<ClassAttr>>],
     [classes |-> <<<<Word(<<"hover", "bg-red">>)>>>>,
      attrs |-> <<ClassAttr>>],
     [classes |-> <<<<Word(<<"bg-red">>)>>, <<Word(<<"block">>), Word(<<"zzz">>)>>>>,
      attrs |-> <<ClassAttr, [key |-> Key(<<"bg">>, ":"), value |-> One(Value(<<"zzz">>))],
                  ClassAttr, [key |-> Key(<<"bg">>, ":"), value |-> One(Value(<<"red">>))]>>]}

FileNames == {"a", "b"}

\* the command lines: -w with any of -c, -a, -s, -t
ArgSets ==
    [compile : BOOLEAN, attributify : BOOLEAN, separate : BOOLEAN, preflight : BOOLEAN,
     watch : {TRUE}]

\* the maps of the cli as one record, and back
Maps == [styleSheets |-> styleSheets, preflights |-> preflights, written |-> written]

Built(s) ==
    /\ styleSheets' = s.styleSheets
    /\ preflights' = s.preflights
    /\ written' = s.written

\* the start of the program, before build(matchFiles): the file a, or a and b
InitCli ==
    /\ \E config \in LifeConfigs : Processor(config)
    /\ args \in ArgSets
    /\ \E da \in Docs :
          \/ files = <<[k |-> "a", v |-> da]>>
          \/ \E db \in Docs : files = <<[k |-> "a", v |-> da], [k |-> "b", v |-> db]>>
    /\ styleSheets = <<>>
    /\ preflights = <<>>
    /\ written = <<>>
    /\ watchers = {}

\* build(matchFiles), then under --watch watchBuild(file) for each of them
Start ==
    /\ written = <<>>
    /\ Built(build(This, args, files, [i \in 1..Len(files) |-> files[i].k], Maps))
    /\ watchers' = IF args.watch THEN OKeys(files) ELSE {}
    /\ UNCHANGED <<_config, _theme, _variants, _cache, _plugin, call, history, args, files>>

\* the watcher of a file, event 'change': build([file], true)
Changed ==
    \E file \in OKeys(files) \cap watchers, doc \in Docs :
        /\ args.watch /\ written # <<>>
        /\ files' = OSet(files, file, doc)
        /\ Built(build(This, args, files', <<file>>, Maps))
        /\ UNCHANGED <<_config, _theme, _variants, _cache, _plugin, call, history, args,
                       watchers>>

\* the watcher of a file, event 'rename' of a file that is gone: its
\* entries are deleted and build([], true) writes the output again; the
\* watcher of a file that is gone reports nothing more
Deleted ==
    \E file \in OKeys(files) \cap watchers :
        /\ args.watch /\ written # <<>>
        /\ files' = ODel(files, file)
        /\ watchers' = watchers \ {file}
        /\ Built(build(This, args, files', <<>>,
                       [Maps EXCEPT !.styleSheets = ODel(@, file),
                                    !.preflights = ODel(@, file)]))
        /\ UNCHANGED <<_config, _theme, _variants, _cache, _plugin, call, history, args>>

\* the watcher of a directory, a new file: build([newFile], true)
Created ==
    \E file \in FileNames \ OKeys(files), doc \in Docs :
        /\ args.watch /\ written # <<>> /\ files # <<>>
        /\ files' = OSet(files, file, doc)
        /\ watchers' = watchers \cup {file}
        /\ Built(build(This, args, files', <<file>>, Maps))
        /\ UNCHANGED <<_config, _theme, _variants, _cache, _plugin, call, history, args>>

\* the watcher of a file, event 'rename' of a file that is there under
\* another name: matchFiles = newFiles and nothing else.  The watcher of
\* the directory sees as many files as before and does nothing
Renamed ==
    \E file \in OKeys(files) \cap watchers, path \in FileNames \ OKeys(files) :
        /\ args.watch /\ written # <<>>
        /\ files' = OSet(ODel(files, file), path, OGet(files, file))
        /\ UNCHANGED <<_config, _theme, _variants, _cache, _plugin, call, history, args,
                       styleSheets, preflights, written, watchers>>

NextCli == Start \/ Changed \/ Deleted \/ Created \/ Renamed

SpecCli == InitCli /\ [][NextCli]_vars

----------------------------------------------------------------------------
(* The resolution of configurations: plugin lists, presets, core plugins *)

\* Processor.config('corePlugins'): the names this._plugin.core enables,
\* or every name of pluginOrder when there is no map
configOf(p, path) ==
    IF path = "corePlugins"
    THEN IF p.plugin.core.t = "obj"
         THEN {n \in DOMAIN p.plugin.core.o : p.plugin.core.o[n]}
         ELSE pluginOrder
    ELSE IF path \in DOMAIN p.config THEN p.config[path] ELSE Undefined

\* Processor.corePlugins(path): an array this._config.corePlugins is asked
\* for path; otherwise config('corePlugins.' + path, true) ?? false
corePlugins(p, path) ==
    IF "corePlugins" \in DOMAIN p.config /\ p.config.corePlugins.t = "arr"
    THEN path \in p.config.corePlugins.a
    ELSE IF /\ "corePlugins" \in DOMAIN p.config
            /\ p.config.corePlugins.t = "obj"
            /\ path \in DOMAIN p.config.corePlugins.o
    THEN p.config.corePlugins.o[path]
    ELSE TRUE

\* none; two plugins that register a variant each; one plugin that registers
\* both; an allow-list of core plugins; an override of core plugins; presets
\* with exclude and prefix; presets under a user configuration of its own
ResolveConfigs ==
    {EmptyObj,
     [plugins |-> <<Plugin(<<[op |-> "addVariant", name |-> "foo", gen |-> "g1"]>>),
                    Plugin(<<[op |-> "addVariant", name |-> "bar", gen |-> "g2"]>>)>>],
     [plugins |-> <<Plugin(<<[op |-> "addVariant", name |-> "foo", gen |-> "g1"],
                             [op |-> "addVariant", name |-> "bar", gen |-> "g2"]>>)>>],
     [corePlugins |-> [t |-> "arr", a |-> {"display"}]],
     [corePlugins |-> Obj([container |-> FALSE])],
     [presets |-> <<[exclude |-> Regexps({"bg-red"}), prefix |-> Str("a-")],
                    [prefix |-> Str("b-")]>>],
     [presets |-> <<[exclude |-> Regexps({"bg-red"}), separator |-> Str("_")]>>,
      prefix |-> Str("u-"), exclude |-> Regexps({"zzz"})]}

InitResolve == Constructed(ResolveConfigs)

\* processor.loadConfig(config)
Resolve ==
    \E config \in ResolveConfigs :
        /\ history.loads < MaxLoads
        /\ Loaded(config)
        /\ history' = [history EXCEPT !.loads = @ + 1]

\* processor.config('corePlugins')
Config ==
    /\ call' = [op |-> "config", path |-> "corePlugins",
                result |-> configOf(This, "corePlugins"), threw |-> FALSE]
    /\ UNCHANGED <<_config, _theme, _variants, _cache, _plugin, history, cli>>

\* processor.corePlugins(path)
CorePlugins ==
    \E path \in pluginOrder :
        /\ call' = [op |-> "corePlugins", path |-> path,
                    result |-> corePlugins(This, path), threw |-> FALSE]
        /\ UNCHANGED <<_config, _theme, _variants, _cache, _plugin, history, cli>>

NextResolve == Resolve \/ Config \/ CorePlugins

SpecResolve == InitResolve /\ [][NextResolve]_vars

----------------------------------------------------------------------------
(* The properties of the compilations *)

Range(seq) == {seq[i] : i \in 1..Len(seq)}

\* the selectors for which the last call logged the event ev: gStyle when
\* _gStyle was entered, extract when extract was called, handleIgnored when
\* the callback was called, add when styles went to the stylesheet
Events(ev) == {call.log[i].sel : i \in {j \in 1..Len(call.log) : call.log[j].ev = ev}}

\* the selectors the exclude patterns of the configuration match
ExcludedSelectors ==
    IF "exclude" \in DOMAIN _config /\ _config.exclude.t = "regexps"
    THEN _config.exclude.matches ELSE {}

\* the names of the selectors of the styles of the last call's stylesheet
StyledNames ==
    {call.styleSheet[i].selector.name :
        i \in {j \in 1..Len(call.styleSheet) : "name" \in DOMAIN call.styleSheet[j].selector}}

\* C1: in interpret and in compile, every utility token that _gStyle is given
\* and whose selector matches exclude is put in ignored, is not put in
\* success, adds no style, and neither extract nor handleIgnored runs for it
C1_ExcludedIsIgnored ==
    call.op \in {"interpret", "compile"} =>
        \A sel \in Events("gStyle") \cap ExcludedSelectors :
            /\ sel \in Range(call.ignored)
            /\ sel \notin Range(call.success)
            /\ sel \notin Events("extract") \cup Events("handleIgnored") \cup Events("add")
            /\ call.op = "interpret" => sel \notin StyledNames

\* an excluded selector that extract has a style for was given to compile,
\* and one that it has none for was given to interpret with a handleIgnored
\* that accepts it
C1_Witness ==
    \/ /\ call.op = "compile"
       /\ "hover:bg-red" \in Events("gStyle") \cap ExcludedSelectors
       /\ "hover:bg-red" \in Range(call.ignored)
    \/ /\ call.op = "interpret"
       /\ call.handleIgnored.t = "handler"
       /\ "zzz" \in Events("gStyle") \cap ExcludedSelectors \cap call.handleIgnored.accepts
       /\ "zzz" \in Range(call.ignored)

\* C2: in attributify, an attribute whose attribute selector matches exclude
\* is put in ignored and contributes no style, extract not being called
C2_AttributifyExcludes ==
    call.op = "attributify" =>
        \A sel \in Events("gStyle") \cap ExcludedSelectors :
            /\ sel \in Range(call.ignored)
            /\ sel \notin Range(call.success)
            /\ sel \notin Events("extract") \cup Events("add")

\* the selectors of the utilities of a token that stands inside groups of
\* the given variants and importance: a group hands its own on to its
\* children; a group whose prefix is no known variant is not a group
RECURSIVE Inherited(_, _, _)
Inherited(tok, variants, important) ==
    IF tok.type = "group" /\ \A i \in 1..Len(tok.segs) : tok.segs[i] \in _cache.variants
    THEN UNION {Inherited(tok.children[i], variants \o tok.segs, important \/ tok.bang) :
                    i \in 1..Len(tok.children)}
    ELSE IF tok.type = "word"
    THEN {(IF important \/ tok.bang THEN "!" ELSE "") \o Join(variants \o tok.segs, ":")}
    ELSE {}

\* C16: interpret gives _gStyle every utility of a group, nested at any
\* depth, with the variants of all the enclosing groups, outermost first,
\* before its own, and important when it or an enclosing group is
C16_NestedGroupsInherit ==
    (call.op = "interpret" /\ ~call.threw) =>
        \A i \in 1..Len(call.classNames) :
            call.classNames[i].type = "group" =>
                Inherited(call.classNames[i], <<>>, FALSE) \subseteq Events("gStyle")

\* the attribute selector [key op "value"], the name escaped and the value
\* as it was written
AttrSelector(key, op, value) == "[" \o e(key) \o op \o "\"" \o valueText(value) \o "\"]"

\* what attributify has reported: success and ignored
Reported == Range(call.success) \cup Range(call.ignored)

\* C19 as stated: every value v of every attribute k is reported under the
\* selector [k~="v"], and [k="v"] is reported for single-valued attributes
\* only
C19_EveryValueWordSelector ==
    (call.op = "attributify" /\ ~call.threw) =>
        \A i \in 1..Len(call.attrs) :
            \A j \in 1..Len(call.attrs[i].value.vals) :
                /\ AttrSelector(call.attrs[i].key, "~=", call.attrs[i].value.vals[j]) \in Reported
                /\ AttrSelector(call.attrs[i].key, "=", call.attrs[i].value.vals[j]) \in Reported
                      => call.attrs[i].value.single

\* C19, amended: every value v of an array-valued attribute k is reported
\* under [k~="v"] and not under [k="v"], the value of a string-valued
\* attribute under [k="v"] and not under [k~="v"]; the selector keeps the
\* text of the value, its variants and its ! included, and every selector in
\* success is the selector of a style of the sheet
C19_SelectorsKeepValueText ==
    (call.op = "attributify" /\ ~call.threw) =>
        /\ \A i \in 1..Len(call.attrs) :
              \A j \in 1..Len(call.attrs[i].value.vals) :
                  LET key == call.attrs[i].key
                      v == call.attrs[i].value.vals[j]
                  IN  IF call.attrs[i].value.single
                      THEN /\ AttrSelector(key, "=", v) \in Reported
                           /\ AttrSelector(key, "~=", v) \notin Reported
                      ELSE /\ AttrSelector(key, "~=", v) \in Reported
                           /\ AttrSelector(key, "=", v) \notin Reported
        /\ \A sel \in Range(call.success) :
              \E n \in 1..Len(call.styleSheet) : call.styleSheet[n].selector = Str(sel)

\* bg="red hover:red" as an array: [bg~="red"] carries bg-red, and
\* [bg~="hover:red"] carries bg-red wrapped by the variant hover
C19_Witness ==
    /\ call.op = "attributify" /\ ~call.threw
    /\ call.success = <<"[bg~=\"red\"]", "[bg~=\"hover:red\"]">>
    /\ \E n \in 1..Len(call.styleSheet) :
          /\ call.styleSheet[n].selector = Str("[bg~=\"red\"]")
          /\ call.styleSheet[n].decl = <<"bg-red">>
          /\ call.styleSheet[n].wrap = <<>>
    /\ \E n \in 1..Len(call.styleSheet) :
          /\ call.styleSheet[n].selector = Str("[bg~=\"hover:red\"]")
          /\ call.styleSheet[n].decl = <<"bg-red">>
          /\ Len(call.styleSheet[n].wrap) = 1
          /\ call.styleSheet[n].wrap[1].name = "hover"

\* C20: in interpret, compile and attributify, a keyframes fragment that
\* extraction returned, alone or in a list, is in the sheet with its own
\* selector (its name), not marked important and not wrapped
C20_KeyframesPassThrough ==
    (call.op \in {"interpret", "compile", "attributify"} /\ ~call.threw) =>
        \A i \in 1..Len(call.styleSheet) :
            call.styleSheet[i].kind = "Keyframes" =>
                /\ call.styleSheet[i].selector = Str(call.styleSheet[i].decl[1])
                /\ ~call.styleSheet[i].important
                /\ call.styleSheet[i].parent = ""
                /\ call.styleSheet[i].wrap = <<>>

\* the number of elements of seq that are x
Count(seq, x) == Cardinality({i \in 1..Len(seq) : seq[i] = x})

\* C23: in interpret and compile every selector is in success and ignored
\* together as many times as _gStyle was entered for it, once for each
\* processing; one that handleIgnored returned a style for is in success and
\* not in ignored, and one that was handed to handleIgnored without a style
\* returned, or that could not be extracted without a callback, is in
\* ignored and not in success
C23_ReportedExactlyOnce ==
    (call.op \in {"interpret", "compile"} /\ ~call.threw) =>
        /\ \A s \in Range(call.success) \cup Range(call.ignored) \cup Events("gStyle") :
              Count(call.success, s) + Count(call.ignored, s)
                  = Cardinality({i \in 1..Len(call.log) :
                                    call.log[i] = [ev |-> "gStyle", sel |-> s]})
        /\ \A s \in Events("handleIgnored") :
              IF s \in call.handleIgnored.accepts
              THEN s \in Range(call.success) /\ s \notin Range(call.ignored)
              ELSE s \in Range(call.ignored) /\ s \notin Range(call.success)

\* C24: in interpret and compile a call that has pushed a selector to
\* success has added a style to the sheet, and in interpret each selector of
\* success has a style of the sheet under its class selector
C24_SuccessAddsStyle ==
    (call.op \in {"interpret", "compile"} /\ ~call.threw) =>
        /\ call.success # <<>> => call.styleSheet # <<>>
        /\ call.op = "interpret" =>
              \A s \in Range(call.success) :
                  \E i \in 1..Len(call.styleSheet) :
                      call.styleSheet[i].selector \in {Dot(s), DotEscaped(s)}

\* C4: no compilation raises on an unknown variant: interpret, compile and
\* attributify return their result object
C4_NoThrowOnUnknownVariant ==
    call.op \in {"interpret", "compile", "attributify"} => ~call.threw

----------------------------------------------------------------------------
(* The properties of (re)configuration *)

\* the variants the plugins of a configuration register: name and generator
RECURSIVE variantsAdded(_, _)
variantsAdded(plugins, i) ==
    IF i > Len(plugins) THEN {}
    ELSE {<<c.name, c.gen>> : c \in {d \in Range(plugins[i].handler) : d.op = "addVariant"}}
             \cup variantsAdded(plugins, i + 1)

PluginVariants(config) ==
    IF "plugins" \in DOMAIN config THEN variantsAdded(config.plugins, 1) ELSE {}

\* the names of the built-in screen, theme and state variants
BuiltinNames == DOMAIN resolveVariants(This)

\* C7: a variant that a plugin registers under the name of a built-in one is,
\* once the constructor or loadConfig has returned, the plugin's
C7_PluginVariantWins ==
    (call.op \in {"new", "loadConfig"} /\ ~call.threw) =>
        \A v \in PluginVariants(call.config) :
            v[1] \in BuiltinNames => _variants[v[1]].gen = v[2]

\* C10: after loadConfig(B) the configuration, the theme, the variants and
\* the plugin registry (core map included) are those of new Processor(B)
C10_NoLeakage ==
    (call.op = "loadConfig" /\ ~call.threw) =>
        /\ _config = loadConfig(New, call.config).config
        /\ _theme = loadConfig(New, call.config).theme
        /\ _variants = loadConfig(New, call.config).variants
        /\ _plugin = loadConfig(New, call.config).plugin

----------------------------------------------------------------------------
(* The properties of the classes cache *)

\* the last two calls are compile with the same arguments
CompiledTwice ==
    /\ call.op = "compile" /\ history.prev.op = "compile"
    /\ call.classNames = history.prev.classNames
    /\ call.prefix = history.prev.prefix
    /\ call.ignoreGenerated = history.prev.ignoreGenerated
    /\ call.handleIgnored = history.prev.handleIgnored

\* C3 as stated: compile(X) called twice gives the same class name, and with
\* ignoreGenerated the second call returns empty success and ignored
C3_SecondCompileIsEmpty ==
    CompiledTwice =>
        /\ call.className = history.prev.className
        /\ call.ignoreGenerated => (call.success = <<>> /\ call.ignored = <<>>)

\* C3: compile(X) called twice gives the same class name, and with
\* ignoreGenerated the second call returns empty success and ignored when the
\* first returned a class name (otherwise it returns what the first did)
C3_SecondCompileIsEmptyWhenNamed ==
    CompiledTwice =>
        /\ call.className = history.prev.className
        /\ (call.ignoreGenerated /\ history.prev.className.t = "str") =>
               (call.success = <<>> /\ call.ignored = <<>>)
        /\ history.prev.className.t = "undef" =>
               (call.success = history.prev.success /\ call.ignored = history.prev.ignored)

\* the first of two compile(X) with ignoreGenerated succeeded in part, and
\* the second returned nothing but the name
C3_Witness ==
    /\ CompiledTwice /\ call.ignoreGenerated
    /\ history.prev.success # <<>> /\ history.prev.ignored # <<>>
    /\ call.success = <<>> /\ call.ignored = <<>>
    /\ call.className.t = "str"

----------------------------------------------------------------------------
(* The properties of the dynamic generators *)

\* C5: after two or more addDynamic under one key, a call of the generator
\* stored under the key returns
C5_ChainedGeneratorReturns ==
    (call.op = "dynamic" /\ Len(Registered(call.key)) >= 2) => call.result # RangeError

\* C6: after addDynamic(k, g1) then addDynamic(k, g2) the generator stored
\* under k returns what g2 returns when g2 accepts, else what g1 returns
C6_LaterGeneratorFirst ==
    (call.op = "dynamic" /\ Len(Registered(call.key)) = 2) =>
        LET g1 == Registered(call.key)[1]
            g2 == Registered(call.key)[2]
            out == IF call.result.t = "style" THEN call.result.s.decl ELSE <<>>
        IN  IF call.className \in g2.accepts THEN out = <<g2.id>>
            ELSE IF call.className \in g1.accepts THEN out = <<g1.id>>
            ELSE call.result = Undefined

----------------------------------------------------------------------------
(* The properties of the resolved theme *)

\* the functions left in a dictionary of a theme
FunctionsIn(dict) == {i \in 1..Len(dict) : dict[i].v.t = "fn"}

\* C8: after the constructor or loadConfig no key of the resolved theme, nor
\* of its extend, holds a function
C8_NoThemeFunctionLeft ==
    (call.op \in {"new", "loadConfig"} /\ ~call.threw) =>
        /\ FunctionsIn(_theme) = {}
        /\ OGet(_theme, "extend").t = "dict" => FunctionsIn(OGet(_theme, "extend").d) = {}

\* the categories that the extend of the last configuration gives an object,
\* and that the base theme gives an object or a function
userTheme == IF "theme" \in DOMAIN call.config THEN call.config.theme ELSE <<>>

extendTheme == IF OGet(userTheme, "extend").t = "dict" THEN OGet(userTheme, "extend").d ELSE <<>>

Extended ==
    {c \in OKeys(extendTheme) :
        /\ OGet(extendTheme, c).t = "obj"
        /\ OGet(baseConfig.theme, c).t \in {"obj", "fn"}}

\* B: what the base theme holds under c, or what its function returns
BaseOf(c) ==
    LET base == OGet(baseConfig.theme, c)
    IN  AsObj(IF base.t = "fn" THEN CallFn(base, _theme) ELSE base)

\* C9 as stated: the resolved category holds B's keys that E lacks with B's
\* values, and E's keys with E's values
C9_ExtendKeepsAndAdds ==
    (call.op \in {"new", "loadConfig"} /\ ~call.threw) =>
        \A c \in Extended :
            LET E == OGet(extendTheme, c).o
                R == AsObj(themeOf(_theme, c))
            IN  /\ \A k \in DOMAIN BaseOf(c) \ DOMAIN E :
                       k \in DOMAIN R /\ R[k] = BaseOf(c)[k]
                /\ \A k \in DOMAIN E : k \in DOMAIN R /\ R[k] = E[k]

\* C9: when the user theme does not itself replace the category, the
\* resolved category holds B's keys that E lacks with B's values, and E's
\* keys with E's values, merged into B's where both are objects
C9_ExtendMergesDeep ==
    (call.op \in {"new", "loadConfig"} /\ ~call.threw) =>
        \A c \in Extended \ OKeys(userTheme) :
            LET E == OGet(extendTheme, c).o
                B == BaseOf(c)
                R == AsObj(themeOf(_theme, c))
            IN  /\ \A k \in DOMAIN B \ DOMAIN E : k \in DOMAIN R /\ R[k] = B[k]
                /\ \A k \in DOMAIN E :
                       /\ k \in DOMAIN R
                       /\ R[k] = IF k \in DOMAIN B /\ B[k].t = "obj" /\ E[k].t = "obj"
                                 THEN Obj(combineConfig(B[k].o, E[k].o)) ELSE E[k]

\* colors was extended with brand: red is kept and brand is added
C9_Witness ==
    /\ call.op \in {"new", "loadConfig"} /\ ~call.threw
    /\ "colors" \in Extended \ OKeys(userTheme)
    /\ "brand" \in DOMAIN OGet(extendTheme, "colors").o
    /\ {"red", "gray", "brand"} \subseteq DOMAIN AsObj(themeOf(_theme, "colors"))


----------------------------------------------------------------------------
(* The properties of the lifetime of a Processor *)

\* C11: no call of interpret, compile, attributify, preflight, extract,
\* addVariant or loadConfig removes an entry of the html, classes or
\* utilities cache: each cache after the call holds what it held before it
C11_CachesNeverShrink ==
    [][/\ Range(_cache.html) \subseteq Range(_cache'.html)
       /\ Range(_cache.classes) \subseteq Range(_cache'.classes)
       /\ Range(_cache.utilities) \subseteq Range(_cache'.utilities)]_vars

\* C15: interpret, compile, attributify, preflight and extract leave the
\* plugin registry (static, dynamic, utilities, components, preflights,
\* shortcuts, alias, core) and the variant table as they were
C15_CompilationsLeaveRegistry ==
    [][call'.op \in {"interpret", "compile", "attributify", "preflight", "extract"}
          => (_plugin' = _plugin /\ _variants' = _variants)]_vars

\* an extract that has found a plugin's utility in the registry, on a
\* Processor that holds a base style, a generator and a plugin's variant
C15_Witness ==
    /\ call.op = "extract" /\ call.className = "btn" /\ call.result.t = "list"
    /\ "html" \in DOMAIN _plugin.preflights
    /\ "foo" \in DOMAIN _plugin.dynamic
    /\ "bar" \in DOMAIN _variants

\* a loadConfig that has left two utilities, two class names and a
\* document in the caches
C11_Witness ==
    /\ call.op = "loadConfig"
    /\ Len(_cache.utilities) >= 2
    /\ Len(_cache.classes) >= 2
    /\ Len(_cache.html) >= 1

----------------------------------------------------------------------------
(* The properties of the command line *)

Selectors(sheet) == {sheet[i].selector : i \in 1..Len(sheet)}

\* the styles of the class attributes of a document, in the mode of args
classSheet(doc) ==
    IF args.compile
    THEN extendAll(compileClasses(This, doc.classes, 1,
                                  [outputStyle |-> <<>>, outputHTML |-> <<>>]).outputStyle, 1)
    ELSE interpret(This, joined(doc.classes, 1), FALSE, Undefined).styleSheet

\* the styles of the other attributes of a document
attrSheet(doc) == attributify(This, attrsFrom(doc.attrs, Len(doc.attrs), <<>>)).styleSheet

\* the css file that holds the styles of a file
cssOf(file) == IF args.separate THEN file \o ".windi.css" ELSE "windi.css"

\* C12: under --attributify with interpret or compile mode, the sheet
\* recorded for each input file, and the css written for it, hold the rules
\* of the file's class attributes and the rules of its other attributes
C12_AttributifyKeepsClassStyles ==
    (args # EmptyObj /\ written # <<>> /\ args.attributify) =>
        \A i \in 1..Len(files) :
            /\ OHas(styleSheets, files[i].k)
            /\ OHas(written, cssOf(files[i].k))
            /\ Selectors(classSheet(files[i].v)) \cup Selectors(attrSheet(files[i].v))
                  \subseteq Selectors(OGet(styleSheets, files[i].k))
            /\ Selectors(classSheet(files[i].v)) \cup Selectors(attrSheet(files[i].v))
                  \subseteq Selectors(OGet(written, cssOf(files[i].k)))

\* the permutations of 1..n
Perms(n) == {f \in [1..n -> 1..n] : \A i, j \in 1..n : f[i] = f[j] => i = j}

\* the per-file sheets folded with extend, then sort() and combine()
aggregate(sheets) == combine(sort(extendAll(sheets, 1)))

\* C13: folding the per-file sheets of the cli in any permutation, then
\* sort and combine, gives the sheet the fold in the map's order gives: the
\* same rules in the same order
C13_AggregationOrderIndependent ==
    \A f \in Perms(Len(styleSheets)) :
        aggregate([i \in 1..Len(styleSheets) |-> styleSheets[f[i]].v])
            = aggregate(Values(styleSheets))

----------------------------------------------------------------------------
(* The properties of the resolution of configurations *)

\* C14: once the constructor or loadConfig has returned, every variant that
\* any plugin of the configuration registered with addVariant is in the
\* variant table and in the list of known variant names
C14_EveryPluginVariantKept ==
    (call.op \in {"new", "loadConfig"} /\ ~call.threw) =>
        \A v \in PluginVariants(call.config) :
            /\ v[1] \in DOMAIN _variants
            /\ v[1] \in _cache.variants

\* the top-level keys of a configuration other than theme and presets
NonThemeKeys ==
    {"exclude", "prefix", "separator", "prefixer", "important", "corePlugins", "plugins"}

\* the presets of a configuration, and the index of the last one that
\* defines k (0 when none does)
PresetsOf(cfg) == IF "presets" \in DOMAIN cfg THEN cfg.presets ELSE <<>>

LastPreset(cfg, k) ==
    LET hit == {i \in 1..Len(PresetsOf(cfg)) : k \in DOMAIN PresetsOf(cfg)[i]}
    IN  IF hit = {} THEN 0 ELSE CHOOSE i \in hit : \A j \in hit : j <= i

\* the value of k by precedence: the user's, else the last preset's, else
\* the base configuration's
Precedence(cfg, k) ==
    IF k \in DOMAIN cfg THEN cfg[k]
    ELSE IF LastPreset(cfg, k) # 0 THEN PresetsOf(cfg)[LastPreset(cfg, k)][k]
    ELSE baseConfig[k]

\* C17: once the constructor or loadConfig has returned, every non-theme
\* key that the user configuration, a preset or the base configuration
\* defines has the value of the first of these, in that order, to define
\* it (of the presets, the last); an exclude of a preset is kept when the
\* user sets none
C17_NonThemeKeyPrecedence ==
    (call.op \in {"new", "loadConfig"} /\ ~call.threw) =>
        \A k \in NonThemeKeys :
            (k \in DOMAIN call.config \/ LastPreset(call.config, k) # 0
                 \/ k \in DOMAIN baseConfig)
                => (k \in DOMAIN _config /\ _config[k] = Precedence(call.config, k))

\* the core plugins the most recent configuration enables: the names of
\* an array, the names an object does not switch off, or all of them
Enabled(cfg) ==
    IF "corePlugins" \notin DOMAIN cfg THEN pluginOrder
    ELSE IF cfg.corePlugins.t = "arr" THEN cfg.corePlugins.a
    ELSE {n \in pluginOrder : n \in DOMAIN cfg.corePlugins.o => cfg.corePlugins.o[n]}

\* C18: once the constructor or any loadConfig has returned,
\* config('corePlugins') lists the core plugins that the most recent
\* configuration enables, and corePlugins(n) is true exactly of the names of
\* pluginOrder in that list
C18_CoreMapOfLatestConfig ==
    (call.op \in {"new", "loadConfig"} /\ ~call.threw) =>
        /\ configOf(This, "corePlugins") \cap pluginOrder = Enabled(call.config) \cap pluginOrder
        /\ \A n \in pluginOrder :
              corePlugins(This, n) <=> n \in configOf(This, "corePlugins")

----------------------------------------------------------------------------
(* The properties of the utilities cache *)

\* the tokens of classNames, from the i-th on, whose raw text is neither in
\* seen nor the raw text of an earlier token of classNames
RECURSIVE Unseen(_, _, _)
Unseen(classNames, seen, i) ==
    IF i > Len(classNames) THEN <<>>
    ELSE IF Text(classNames[i]) \in seen THEN Unseen(classNames, seen, i + 1)
    ELSE <<classNames[i]>>
             \o Unseen(classNames, seen \cup {Text(classNames[i])}, i + 1)

\* what a call has returned
Returned(c) == <<c.success, c.ignored, c.styleSheet>>

\* C21: an interpret with ignoreProcessed returns what interpreting only
\* the top-level tokens not yet in the utilities cache and not repeated
\* earlier in the call returns, a skipped token adding nothing to success,
\* ignored or the sheet, and leaves every token's raw text in the cache; an
\* interpret without ignoreProcessed leaves the cache as it was and returns
\* what it returns on a Processor whose cache is empty
C21_ProcessedTokensSkipped ==
    [][(call'.op = "interpret" /\ ~call'.threw) =>
          LET seen == Range(_cache.utilities)
              fresh == Unseen(call'.classNames, seen, 1)
              only == interpret(This, fresh, FALSE, call'.handleIgnored)
              blank == interpret([This EXCEPT !.cache.utilities = <<>>],
                                 call'.classNames, FALSE, call'.handleIgnored)
          IN  IF call'.ignoreProcessed
              THEN /\ Returned(call') = Returned(only)
                   /\ Range(_cache'.utilities)
                          = seen \cup {Text(call'.classNames[i]) :
                                          i \in 1..Len(call'.classNames)}
              ELSE /\ _cache'.utilities = _cache.utilities
                   /\ Returned(call') = Returned(blank)]_vars

\* an interpret with ignoreProcessed of `zzz bg-red` that has skipped bg-red,
\* seen by an earlier call, and has reported zzz alone
C21_Witness ==
    /\ call.op = "interpret" /\ call.ignoreProcessed
    /\ call.classNames = <<Word(<<"zzz">>), Word(<<"bg-red">>)>>
    /\ call.success = <<>> /\ call.ignored = <<"zzz">> /\ call.styleSheet = <<>>
    /\ Range(_cache.utilities) = {"zzz", "bg-red"}

----------------------------------------------------------------------------
(* The base styles: addBase called by plugins while a configuration is *)
(* resolved, and on the Processor afterwards                          *)

\* the at-rules `@screen <name>` and `@media print` of a base style
Screen(name) == [screen |-> TRUE, name |-> name]

Media(name) == [screen |-> FALSE, name |-> name]

\* base styles under no at-rule, under @screen sm, under @screen hover,
\* under @screen xl9 (no variant has this name), under @media print and
\* @screen sm
BaseRules ==
    {[key |-> "html", decl |-> "base", atRules |-> <<>>],
     [key |-> "body", decl |-> "base", atRules |-> <<Screen("sm")>>],
     [key |-> "body", decl |-> "base", atRules |-> <<Screen("hover")>>],
     [key |-> "body", decl |-> "base", atRules |-> <<Screen("xl9")>>],
     [key |-> "html", decl |-> "base", atRules |-> <<Media("print"), Screen("sm")>>]}

\* no configuration; a plugin for each base style; a theme with vars and
\* with screens of its own
BaseConfigs ==
    {EmptyObj,
     [theme |-> <<[k |-> "screens", v |-> Obj([md |-> Str("768px")])],
                  [k |-> "vars", v |-> Obj([brand |-> Str("#fff")])]>>]}
        \cup {[plugins |-> <<Plugin(<<[op |-> "addBase", rule |-> rule]>>)>>] :
                 rule \in BaseRules}

InitBase == Constructed(BaseConfigs)

\* processor.addBase(baseStyles), on a Processor whose constructor returned
AddBase ==
    \E rule \in BaseRules :
        /\ ~(call.op = "new" /\ call.threw)
        /\ history.regs < MaxRegs
        /\ Becomes(addBase(This, rule))
        /\ call' = [op |-> "addBase", rule |-> rule, threw |-> addBase(This, rule).threw]
        /\ history' = [history EXCEPT !.regs = @ + 1]
        /\ UNCHANGED cli

NextBase == AddBase

SpecBase == InitBase /\ [][NextBase]_vars

----------------------------------------------------------------------------
(* The properties of the base styles *)

\* the at-rule a of a base style as addBase is to register it: the at-rule
\* of the breakpoint a names, or a itself
Rewritten(a) ==
    IF a.screen /\ a.name \in DOMAIN _variants /\ _variants[a.name].kind = "screen"
    THEN [screen |-> FALSE, name |-> a.name, media |-> _variants[a.name].at]
    ELSE a

\* the base styles the rules of a configuration's plugins register
BaseRulesOf(config) ==
    IF "plugins" \in DOMAIN config
    THEN {config.plugins[i].handler[j].rule :
            i \in 1..Len(config.plugins), j \in 1..1}
    ELSE {}

\* rule is registered with its at-rules rewritten
RegisteredBase(rule) ==
    /\ rule.key \in DOMAIN _plugin.preflights
    /\ \E i \in 1..Len(_plugin.preflights[rule.key]) :
          _plugin.preflights[rule.key][i].atRules
              = [j \in 1..Len(rule.atRules) |-> Rewritten(rule.atRules[j])]

\* C22: addBase, called on the Processor or by a plugin while a
\* configuration is resolved, does not raise and registers the base style
\* with every `@screen <name>` at-rule replaced by the at-rule of the
\* breakpoint <name>, or left as it is when no variant has this name; the
\* :root rule of theme.vars is registered as well
C22_AddBaseNeverRaises ==
    /\ call.op = "addBase" => (~call.threw /\ RegisteredBase(call.rule))
    /\ call.op = "new" =>
          /\ ~call.threw
          /\ \A rule \in BaseRulesOf(call.config) : RegisteredBase(rule)
          /\ themeOf(_theme, "vars").t # "undef" => ":root" \in DOMAIN _plugin.preflights

----------------------------------------------------------------------------
(* The properties of the class name of compile *)

\* C25: a compile that did not return early on a cached name returns a
\* class name, the prefix and the hash of its input, exactly when success is
\* not empty; the classes cache changes only by a compile with
\* ignoreGenerated and a non-empty success, which appends this name
C25_ClassNameIffSuccess ==
    [][(call'.op = "compile" /\ ~call'.threw) =>
          LET name == call'.prefix \o hash(normalized(call'.classNames))
              short == call'.ignoreGenerated /\ name \in Range(_cache.classes)
          IN  /\ ~short => /\ call'.className.t = "str" <=> call'.success # <<>>
                           /\ call'.className.t = "undef" <=> call'.success = <<>>
                           /\ call'.className \in {Str(name), Undefined}
              /\ _cache'.classes # _cache.classes =>
                    /\ call'.ignoreGenerated /\ call'.success # <<>>
                    /\ _cache'.classes = Append(_cache.classes, name)]_vars

\* a compile with ignoreGenerated that succeeded in part and whose class
\* name is the one name of the cache, after a compile with ignoreGenerated
\* that succeeded in nothing, returned no class name and cached none
C25_Witness ==
    /\ call.op = "compile" /\ call.ignoreGenerated /\ ~call.threw
    /\ call.success # <<>> /\ call.ignored # <<>>
    /\ call.className.t = "str" /\ _cache.classes = <<call.className.s>>
    /\ history.prev.op = "compile" /\ history.prev.ignoreGenerated
    /\ history.prev.success = <<>> /\ history.prev.className.t = "undef"

----------------------------------------------------------------------------
(* The properties of the theme accessor *)

\* the entries of a sequence in the opposite order
Reversed(seq) == [i \in 1..Len(seq) |-> seq[Len(seq) + 1 - i]]

\* config with the keys of its theme, extend apart, listed in the opposite
\* order
Mirror(config) ==
    [config EXCEPT !.theme =
        Reversed(SelectSeq(@, LAMBDA en : en.k # "extend"))
            \o SelectSeq(@, LAMBDA en : en.k = "extend")]

\* the theme of a new Processor(config)
ThemeOfNew(config) == loadConfig(New, config).theme

\* C26: in a new Processor a theme key whose function returns theme(other)
\* holds a resolved value, not a function, and every theme key holds what it
\* holds when the configuration lists its theme keys in the opposite order
C26_ThemeOrderIndependent ==
    (call.op = "new" /\ ~call.threw /\ "theme" \in DOMAIN call.config) =>
        /\ \A i \in 1..Len(userTheme) :
              (userTheme[i].v.t = "fn" /\ userTheme[i].v.c.c = "ref") =>
                  OGet(_theme, userTheme[i].k).t # "fn"
        /\ \A k \in {"a", "b", "colors"} :
              OGet(_theme, k) = OGet(ThemeOfNew(Mirror(call.config)), k)

----------------------------------------------------------------------------
(* The properties of the watch mode *)

\* what build(matchFiles) of a program started on the files as they are now
\* writes
Rebuilt ==
    build(This, args, files, [i \in 1..Len(files) |-> files[i].k],
          [styleSheets |-> <<>>, preflights |-> <<>>, written |-> <<>>]).written

\* C27: under --watch, once the first build is done and whatever change,
\* creation, deletion and renaming the watchers have handled since, the
\* files that have a sheet in styleSheets are the matched files, and the
\* combined output holds the rules that a build of the matched files writes
C27_SheetsOfMatchedFiles ==
    (args # EmptyObj /\ written # <<>> /\ args.watch) =>
        /\ OKeys(styleSheets) = OKeys(files)
        /\ ~args.separate =>
              Selectors(OGet(written, "windi.css")) = Selectors(OGet(Rebuilt, "windi.css"))

====
